---- MODULE Spec2Model ----
(***************************************************************************)
(* Fund-holdings ingestion and point-in-time resolution of CapitalCompass. *)
(*                                                                         *)
(* The model covers the resolution facade (PrimaryHoldingsClient), the     *)
(* Auto-Snapshot fallback (AutoSnapshotManager) and the three ingestion    *)
(* orchestrators (N-PORT, OAM, BDIF) together with the two on-disk layouts *)
(* they write: the simplified store funds/<name>/<date>/holdings.csv and   *)
(* the versioned store gold_holdings/fund_id=F/as_of=D/version=N.          *)
(*                                                                         *)
(* Dates are day numbers 1..MaxDate.  A date string is represented by the  *)
(* day number it denotes; NoDate stands for None and BadDate for a string  *)
(* that datetime.strptime(_, "%Y-%m-%d") rejects.                          *)
(***************************************************************************)
EXTENDS Integers, Sequences, FiniteSets, TLC

\* ------------------------------------------------------------------ bounds
MaxDate == 2            \* dates are 1..MaxDate; the run happens on day MaxDate
MaxOps == 2             \* top-level operations per behaviour
MaxCand == 2            \* candidates a discovery call returns
RecursionLimit == 2     \* nesting depth at which Python raises RecursionError

\* ------------------------------------------------------- program constants
NPORT_DEFAULT_FRESHNESS == 30
OAM_DEFAULT_FRESHNESS == 210
BDIF_DEFAULT_FRESHNESS == 185

None == "None"
Unset == 0                   \* a key the registry entry does not carry
NoDate == 0
BadDate == -1
Dates == 1..MaxDate
Today == MaxDate
AsOfArgs == {NoDate, BadDate} \cup Dates     \* as_of: None, unparseable, or a date
DirNames == {BadDate} \cup Dates             \* names a date directory can carry
Absent == "absent"

\* datetime.strptime(name, "%Y-%m-%d"): the date, or BadDate for ValueError
ParseDate(s) == IF s \in Dates THEN s ELSE BadDate

\* ------------------------------------------------------------ the registry
\* fund_registry.yaml as loaded by every component.
Registry ==
  [ f \in {"SPY", "LU0000000001", "FR0000000002"} |->
      CASE f = "SPY" ->
             [fund_id |-> "SPY", tickers |-> <<"SPY">>, cik |-> "0000884394",
              isin |-> None, share_class_isin |-> None, jurisdiction |-> None,
              auto_source |-> None, freshness_days |-> 1,
              default_as_of |-> NoDate, fallback_holdings |-> FALSE]
        [] f = "LU0000000001" ->
             [fund_id |-> "LU0000000001", tickers |-> <<"LUXT">>, cik |-> None,
              isin |-> "LU0000000001", share_class_isin |-> None,
              jurisdiction |-> None,
              auto_source |-> "yfinance", freshness_days |-> 1,
              default_as_of |-> NoDate, fallback_holdings |-> TRUE]
        [] OTHER ->
             [fund_id |-> "FR0000000002", tickers |-> <<>>, cik |-> None,
              isin |-> None, share_class_isin |-> "FR0000000002",
              jurisdiction |-> None,
              auto_source |-> None, freshness_days |-> Unset,
              default_as_of |-> NoDate, fallback_holdings |-> FALSE] ]

FundIds == DOMAIN Registry

\* Identifiers a caller may pass to fetch_holdings.
Idents == {"spy", "LUXT", "LU0000000001", "FR0000000002", "ZZZ", "XX0000000009"}

\* str.upper() on the identifiers above
Upper(s) == IF s = "spy" THEN "SPY" ELSE s

\* ticker_upper[:2].isalpha() on the identifiers above
AlphaPrefix(s) == s \in {"SPY", "LUXT", "LU0000000001", "FR0000000002", "ZZZ", "XX0000000009"}

\* isin[:2]
Prefix2(isin) ==
  CASE isin = "LU0000000001" -> "LU"
    [] isin = "FR0000000002" -> "FR"
    [] isin = "XX0000000009" -> "XX"
    [] OTHER -> "--"

SeqToSet(s) == {s[i] : i \in 1..Len(s)}

\* _load_registry: ticker.upper() -> fund_id for every ticker of every entry
TickerIndex ==
  [ t \in UNION {{Upper(x) : x \in SeqToSet(Registry[f].tickers)} : f \in FundIds} |->
      CHOOSE f \in FundIds : t \in {Upper(x) : x \in SeqToSet(Registry[f].tickers)} ]

\* a faulty lookup: an unmatched ticker falls back to some registry entry
ResolveFundEntryAny(ticker_upper) ==
  IF \E f \in FundIds : \E i \in 1..Len(Registry[f].tickers) :
       Upper(Registry[f].tickers[i]) = ticker_upper
  THEN CHOOSE f \in FundIds : \E i \in 1..Len(Registry[f].tickers) :
         Upper(Registry[f].tickers[i]) = ticker_upper
  ELSE CHOOSE f \in FundIds : TRUE

\* _resolve_fund_entry: ticker index, then brute-force scan; None when both miss
ResolveFundEntry(ticker_upper) ==
  IF ticker_upper \in DOMAIN TickerIndex THEN TickerIndex[ticker_upper]
  ELSE IF \E f \in FundIds : \E i \in 1..Len(Registry[f].tickers) :
            Upper(Registry[f].tickers[i]) = ticker_upper
       THEN CHOOSE f \in FundIds : \E i \in 1..Len(Registry[f].tickers) :
            Upper(Registry[f].tickers[i]) = ticker_upper
       ELSE None

\* _resolve_fund_entry_by_isin: share_class_isin, isin, or the registry key itself
ResolveFundEntryByIsin(isin) ==
  IF \E f \in FundIds : Registry[f].share_class_isin = isin \/ Registry[f].isin = isin \/ f = isin
  THEN CHOOSE f \in FundIds :
         Registry[f].share_class_isin = isin \/ Registry[f].isin = isin \/ f = isin
  ELSE None

\* fetch_holdings, lines 96-107: the entry the identifier resolves to, or None
ResolveIdentifier(ticker_upper) ==
  LET e == ResolveFundEntry(ticker_upper) IN
  IF e # None THEN e
  ELSE IF Len(ticker_upper) = 12 /\ AlphaPrefix(ticker_upper)
       THEN ResolveFundEntryByIsin(ticker_upper)
       ELSE None

NoPos == -1                     \* max_positions = None

\* cache_key = f"{ticker_upper}:{as_of or 'latest'}:{max_positions or 'all'}"
\* as_of None keys as 'latest' (NoDate); max_positions None and 0 both key as
\* 'all' (NoPos), since "0 or 'all'" is 'all'
CacheKey(ticker_upper, as_of, max_positions) ==
  <<ticker_upper, as_of, IF max_positions = 0 THEN NoPos ELSE max_positions>>

\* ------------------------------------------------------------ environment
PosArgs == {NoPos}
LiveData == {"a", "b"}          \* what a live lookup or a filing can contain
FallbackData == "fb"            \* the entry's static fallback_holdings
TopHoldings == {"table", "empty", "odd"}   \* funds_data.top_holdings of the provider

\* QA thresholds, in tenths of a percent
WEIGHT_SUM_MIN == 995
WEIGHT_SUM_MAX == 1005
MIN_ISIN_COVERAGE == 980

\* What one discovered document turns out to be: whether it downloads, whether
\* the PDF opens, how many holdings it parses to, and the weight sum and ISIN
\* coverage (tenths of a percent) of the enriched rows.
Profiles ==
  { [dl |-> FALSE, readable |-> TRUE,  n |-> 1, weight_sum |-> 1000, coverage |-> 1000],
    [dl |-> TRUE,  readable |-> FALSE, n |-> 0, weight_sum |-> 0,    coverage |-> 0],
    [dl |-> TRUE,  readable |-> TRUE,  n |-> 0, weight_sum |-> 0,    coverage |-> 0],
    [dl |-> TRUE,  readable |-> TRUE,  n |-> 1, weight_sum |-> 1000, coverage |-> 1000],
    [dl |-> TRUE,  readable |-> TRUE,  n |-> 1, weight_sum |-> 900,  coverage |-> 1000] }

\* Discovery results: at most MaxCand reports, most recent first.
ReportLists == UNION {[1..n -> Profiles] : n \in 0..MaxCand}
\* as_of of the i-th report of a discovery result (sorted by as_of, descending)
ReportDate(i) == IF Today - (i - 1) >= 1 THEN Today - (i - 1) ELSE 1

\* N-PORT filings: for each filing, whether it belongs to the entry's series_id
FilingLists == UNION {[1..n -> BOOLEAN] : n \in 0..MaxCand}

Max(S) == CHOOSE x \in S : \A y \in S : y <= x

\* ------------------------------------------------------------------ state
VARIABLES
  bp,        \* base_path given to PrimaryHoldingsClient: "default" or "custom"
  funds,     \* simplified store: <<root, fund name, date dir>> -> holdings.csv content
  gold,      \* versioned stores: records [store, fund, as_of, version, data]
  persists,  \* history: every snapshot write, in order
  cache,     \* PrimaryHoldingsClient._cache: key -> result
  call,      \* the fetch_holdings call in progress or just completed
  run,       \* the ingestion / ensure_snapshot / persist call just completed
  nOps,      \* operations started so far
  prep,      \* the _load_snapshot / _prepare_holdings evaluation just made
  gate,      \* the validate_holdings evaluation just made
  http,      \* the discovery request or download in progress
  reg,       \* the registry file and the ensure_fund_registered call just made
  enr,       \* the enrich_holdings evaluation just made
  lim,       \* clock, request log and throttle state of the network components
  writers,   \* registry file and the interleaved ensure_fund_registered calls
  savers,    \* version directory and the interleaved _save_gold calls
  search     \* the BDIF discover_reports call in progress

\* the variables of the component-level specifications
\* the variables of the concurrency and enrichment specifications
more == <<enr, lim, writers, savers, search>>

MoreIdle ==
  enr = None /\ lim = None /\ writers = None /\ savers = None /\ search = None

comp == <<prep, gate, http, reg, more>>

vars == <<bp, funds, gold, persists, cache, call, run, nOps, prep, gate, http, reg, more>>

Roots == {"proj", "auto_alt", "nport_alt"}
FundNames == {"SPY", "LUXT", "LU0000000001", "FR0000000002"}
FundsLocs == Roots \X FundNames \X DirNames

\* PrimaryHoldingsClient._funds_dir = <repo>/data/funds, whatever base_path is
ClientFundsDir == "proj"
\* AutoSnapshotManager._funds_dir = base_path.parent(.parent)/data/funds
AutoFundsDir(b) == IF b = "default" THEN "proj" ELSE "auto_alt"
\* NPORTIngestionPipeline.funds_dir = base_path.parent/funds
NportFundsDir(b) == IF b = "default" THEN "proj" ELSE "nport_alt"

\* fund_id.replace("=", "_").replace("/", "_") on the registry keys above
CleanFundId(f) == f

\* PrimaryHoldingsClient._get_fund_name
ClientFundName(f) ==
  LET t == Registry[f].tickers IN
  IF Len(t) > 0 /\ t[1] # "" THEN t[1] ELSE CleanFundId(f)
\* AutoSnapshotManager._get_fund_name
AutoFundName(f) ==
  LET t == Registry[f].tickers IN IF Len(t) > 0 THEN t[1] ELSE CleanFundId(f)
\* NPORTIngestionPipeline._get_fund_name
NportFundName(f) ==
  IF f \in FundIds /\ Len(Registry[f].tickers) > 0 THEN Registry[f].tickers[1]
  ELSE CleanFundId(f)

IdleCall ==
  [pc |-> "idle", ident |-> None, ticker_upper |-> None, as_of |-> NoDate,
   max_positions |-> NoPos, fund |-> None, depth |-> 0, ensureCalls |-> 0,
   lastEnsure |-> None, reads |-> 0, cacheAdded |-> FALSE, fromCache |-> FALSE,
   outcome |-> None, snap_as_of |-> NoDate, version |-> 0, data |-> None]

IdleRun ==
  [op |-> "idle", orch |-> None, fund |-> None, target |-> NoDate, force |-> FALSE,
   outcome |-> None, net |-> 0, ncands |-> 0, tried |-> 0, noSeriesMatch |-> FALSE,
   reachedQA |-> FALSE, qa |-> None, wrote |-> FALSE, latestBefore |-> NoDate,
   dlFailed |-> FALSE]

Quiet == call.pc = "idle" /\ run.op = "idle"

Init ==
  /\ bp \in {"default", "custom"}
  /\ funds = [l \in FundsLocs |-> Absent]
  /\ gold = {}
  /\ persists = <<>>
  /\ cache = <<>>
  /\ call = IdleCall
  /\ run = IdleRun
  /\ nOps = 0
  /\ MoreIdle
  /\ prep = None
  /\ gate = None
  /\ http = None
  /\ reg = None

\* ----------------------------------------------------------- store helpers
\* A write of a snapshot file, as recorded in the history.
\* qa: the QA status the writing run went on to report (None when it ran no QA)
PersistEvent(writer, store, f, as_of, version, data) ==
  [writer |-> writer, store |-> store, fund |-> f, as_of |-> as_of,
   version |-> version, data |-> data, qa |-> None]

\* date directories of <root>/<name> that exist
DateDirs(root, name) == {d \in DirNames : funds[<<root, name, d>>] # Absent}

\* _next_version: max of the version=* entries of the directory, plus one
NextVersion(store, f, as_of) ==
  LET vs == {g.version : g \in {h \in gold : h.store = store /\ h.fund = f /\ h.as_of = as_of}}
  IN IF vs = {} THEN 1 ELSE Max(vs) + 1

\* _get_latest_as_of of the OAM and BDIF orchestrators: newest as_of=* directory
GoldLatestAsOf(store, f) ==
  LET ds == {g.as_of : g \in {h \in gold : h.store = store /\ h.fund = f}} IN
  IF ds = {} THEN NoDate ELSE Max(ds)

\* NPORTIngestionPipeline._get_latest_as_of: newest parseable date directory
NPORTLatestAsOf(f) ==
  LET ds == {ParseDate(d) : d \in DateDirs(NportFundsDir(bp), NportFundName(f))} \ {BadDate}
  IN IF ds = {} THEN NoDate ELSE Max(ds)

\* a faulty freshness test: the comparison turned around
IsFreshInverted(latest, freshness_days) ==
  latest # NoDate /\ (Today - latest) > freshness_days

\* ingest_fund: latest_as_of is set and (date.today() - latest_as_of).days < freshness_days
IsFresh(latest, freshness_days) ==
  latest # NoDate /\ (Today - latest) < freshness_days

\* fund_config.get("freshness_days", default)
FreshnessDays(f, default) ==
  IF Registry[f].freshness_days = Unset THEN default ELSE Registry[f].freshness_days

\* a faulty return statement: success whatever QA said
IngestReturnAlways(status) == "true"

\* return qa_result.status == "pass"
IngestReturn(status) == IF status = "pass" THEN "true" ELSE "false"

\* BDIFQualityAssurance.validate_holdings: weight-sum and ISIN-coverage checks
BDIFValidate(p) ==
  IF p.n = 0 THEN "fail"
  ELSE IF /\ WEIGHT_SUM_MIN <= p.weight_sum /\ p.weight_sum <= WEIGHT_SUM_MAX
          /\ p.coverage >= MIN_ISIN_COVERAGE
       THEN "pass" ELSE "fail"

\* OAMQualityAssurance.validate_holdings (section 4.5): the same independent checks
OAMValidate(p) ==
  IF /\ WEIGHT_SUM_MIN <= p.weight_sum /\ p.weight_sum <= WEIGHT_SUM_MAX
     /\ p.coverage >= MIN_ISIN_COVERAGE
  THEN "pass" ELSE "fail"

\* Result of an ingest_fund call: outcome is "true", "false" or "raised".
IngestResult(outcome, net, ncands, tried, persist, qa) ==
  [outcome |-> outcome, net |-> net, ncands |-> ncands, tried |-> tried,
   persist |-> persist, qa |-> qa, dlFailed |-> FALSE]

NoPersist == [as_of |-> NoDate, data |-> None]

\* ingest_fund returns False after download_report returned None
DownloadFailed(n) ==
  [IngestResult("false", 2, n, 1, NoPersist, None) EXCEPT !.dlFailed = TRUE]

\* ------------------------------------------------------- N-PORT orchestrator
\* NPORTDownloader.download_filing(url, cik, accession, as_of_date) is called
\* with the extra keyword fund_name: binding the arguments raises TypeError.

\* NPORTIngestionPipeline.ingest_fund
NPORTIngest(f, target, force, filings) ==
  IF f \notin FundIds THEN IngestResult("false", 0, 0, 0, NoPersist, None)
  ELSE IF Registry[f].cik = None THEN IngestResult("false", 0, 0, 0, NoPersist, None)
  ELSE IF ~force /\ target = NoDate
          /\ IsFresh(NPORTLatestAsOf(f), FreshnessDays(f, NPORT_DEFAULT_FRESHNESS))
       THEN IngestResult("true", 0, 0, 0, NoPersist, None)
  ELSE IF Len(filings) = 0 THEN IngestResult("false", 1, 0, 0, NoPersist, None)
  ELSE \* the loop body ends in NPORTDownloadCall for the first candidate
       [IngestResult("raised", 1, Len(filings), 1, NoPersist, None)
          EXCEPT !.dlFailed = TRUE]

\* ---------------------------------------------------------- OAM orchestrator
\* index of the report closest to target (first one on ties), else the first
OAMSelect(n, target) ==
  IF target = NoDate THEN 1
  ELSE LET diff(i) == IF ReportDate(i) >= target THEN ReportDate(i) - target
                      ELSE target - ReportDate(i)
       IN CHOOSE i \in 1..n : /\ \A j \in 1..n : diff(i) <= diff(j)
                              /\ \A j \in 1..(i-1) : diff(j) > diff(i)

\* OAMIngestionPipeline.ingest_fund
OAMIngest(f, target, force, reports) ==
  IF f \notin FundIds THEN IngestResult("false", 0, 0, 0, NoPersist, None)
  ELSE
  LET cfg == Registry[f]
      isin == IF cfg.isin # None THEN cfg.isin ELSE cfg.share_class_isin
      juris == IF cfg.jurisdiction # None THEN cfg.jurisdiction
               ELSE IF isin # None /\ Prefix2(isin) \in {"LU", "DE"} THEN Prefix2(isin)
               ELSE None
  IN
  IF isin = None \/ juris = None THEN IngestResult("false", 0, 0, 0, NoPersist, None)
  ELSE IF ~force /\ target = NoDate
          /\ IsFresh(GoldLatestAsOf("OAM.gold", f), FreshnessDays(f, OAM_DEFAULT_FRESHNESS))
       THEN IngestResult("true", 0, 0, 0, NoPersist, None)
  ELSE IF Len(reports) = 0 THEN IngestResult("false", 1, 0, 0, NoPersist, None)
  ELSE
  LET n == Len(reports)
      i == OAMSelect(n, target)
      p == reports[i]
  IN
  IF ~p.dl THEN DownloadFailed(n)
  ELSE IF ~p.readable \/ p.n = 0 THEN IngestResult("false", 2, n, 1, NoPersist, None)
  ELSE LET status == OAMValidate(p) IN
       IngestResult(IngestReturn(status), 2, n, 1,
                    [as_of |-> ReportDate(i), data |-> "a"], status)

\* --------------------------------------------------------- BDIF orchestrator
\* BDIFIngestionPipeline.ingest_fund
BDIFIngest(f, target, force, reports) ==
  IF f \notin FundIds THEN IngestResult("false", 0, 0, 0, NoPersist, None)
  ELSE
  LET cfg == Registry[f]
      isin == IF cfg.isin # None THEN cfg.isin ELSE cfg.share_class_isin
  IN
  IF isin = None \/ Prefix2(isin) # "FR" THEN IngestResult("false", 0, 0, 0, NoPersist, None)
  ELSE IF ~force /\ target = NoDate
          /\ IsFresh(GoldLatestAsOf("BDIF.gold", f), FreshnessDays(f, BDIF_DEFAULT_FRESHNESS))
       THEN IngestResult("true", 0, 0, 0, NoPersist, None)
  ELSE IF Len(reports) = 0 THEN IngestResult("false", 1, 0, 0, NoPersist, None)
  ELSE
  LET n == Len(reports)
      hits == {j \in 1..n : ReportDate(j) = target}
  IN
  IF target # NoDate /\ hits = {} THEN IngestResult("false", 1, n, 0, NoPersist, None)
  ELSE
  LET i == IF target # NoDate THEN CHOOSE j \in hits : \A k \in hits : j <= k ELSE 1
      p == reports[i]
  IN
  IF ~p.dl THEN DownloadFailed(n)
  ELSE IF ~p.readable THEN IngestResult("raised", 2, n, 1, NoPersist, None)
  ELSE IF p.n = 0 THEN IngestResult("false", 2, n, 1, NoPersist, None)
  ELSE LET status == BDIFValidate(p) IN
       IngestResult(IngestReturn(status), 2, n, 1,
                    [as_of |-> ReportDate(i), data |-> "a"], status)

\* ------------------------------------------------------------ Auto-Snapshot
NoLoc == <<"none", "none", NoDate>>
EnsureResult(status, loc, data, net) ==
  [status |-> status, loc |-> loc, data |-> data, net |-> net]

\* AutoSnapshotManager._ingest_from_sec: the N-PORT orchestrator with force=True;
\* an unparseable override is dropped, an exception becomes a failed result
IngestFromSec(f, as_of, filings) ==
  LET target == IF as_of # NoDate /\ ParseDate(as_of) # BadDate THEN ParseDate(as_of) ELSE NoDate
      r == NPORTIngest(f, target, TRUE, filings)
  IN EnsureResult(IF r.outcome = "true" THEN "success" ELSE "failed", NoLoc, None, r.net)

\* AutoSnapshotManager._build_from_yfinance followed by _write_snapshot
BuildFromYfinance(f, as_of, top, data) ==
  LET entry == Registry[f]
      dir == IF as_of # NoDate THEN as_of
             ELSE IF entry.default_as_of # NoDate THEN entry.default_as_of ELSE Today
      loc == <<AutoFundsDir(bp), AutoFundName(f), dir>>
  IN
  IF Len(entry.tickers) = 0 THEN EnsureResult("failed", NoLoc, None, 0)
  ELSE IF top = "odd" THEN EnsureResult("raised", NoLoc, None, 1)
  ELSE IF top = "table" THEN EnsureResult("success", loc, data, 1)
  ELSE IF entry.fallback_holdings THEN EnsureResult("success", loc, FallbackData, 1)
  ELSE EnsureResult("failed", NoLoc, None, 1)

\* AutoSnapshotManager.ensure_snapshot
EnsureSnapshot(f, as_of, top, data, filings) ==
  IF Registry[f].cik # None THEN IngestFromSec(f, as_of, filings)
  ELSE IF Registry[f].auto_source = "yfinance" THEN BuildFromYfinance(f, as_of, top, data)
  ELSE EnsureResult("failed", NoLoc, None, 0)

\* the store and the history after the write an ensure_snapshot result carries
FundsAfter(r) == IF r.loc = NoLoc THEN funds ELSE [funds EXCEPT ![r.loc] = r.data]
PersistsAfter(r, f) ==
  IF r.loc = NoLoc THEN persists
  ELSE Append(persists, PersistEvent("AUTO", r.loc[1], f, r.loc[3], 1, r.data))

\* ------------------------------------------------------- resolution facade
\* snapshots the scan of _discover_snapshot collects for the fund
Candidates(f, as_of) ==
  LET target == IF as_of # NoDate THEN ParseDate(as_of) ELSE NoDate IN
  {d \in DateDirs(ClientFundsDir, ClientFundName(f)) :
      /\ ParseDate(d) # BadDate
      /\ (target = NoDate \/ ParseDate(d) = target)}

\* a faulty body of _discover_snapshot: gives up when the fund root is missing
DiscoverGivesUp(f, as_of) ==
  IF DateDirs(ClientFundsDir, ClientFundName(f)) = {} THEN "none"
  ELSE IF as_of # NoDate /\ ParseDate(as_of) = BadDate THEN "malformed"
  ELSE IF Candidates(f, as_of) = {} THEN "ensure"
  ELSE "select"

\* one pass over the body of _discover_snapshot, up to its first call or return:
\* "ensure" (fund root missing, or no candidate), "malformed" (as_of rejected),
\* "select" (a candidate is returned)
DiscoverBody(f, as_of) ==
  IF DateDirs(ClientFundsDir, ClientFundName(f)) = {} THEN "ensure"
  ELSE IF as_of # NoDate /\ ParseDate(as_of) = BadDate THEN "malformed"
  ELSE IF Candidates(f, as_of) = {} THEN "ensure"
  ELSE "select"

\* candidates.sort(key=(as_of, version)); selected = candidates[-1]
SelectSnapshot(f, as_of) == Max({ParseDate(d) : d \in Candidates(f, as_of)})

Finish(c, outcome) == [c EXCEPT !.pc = "done", !.outcome = outcome]

\* fetch_holdings, lines 87-107: cache lookup, then registry resolution
FetchStart(ident, as_of, mp) ==
  /\ Quiet
  /\ nOps < MaxOps
  /\ nOps' = nOps + 1
  /\ LET tu == Upper(ident)
         key == CacheKey(tu, as_of, mp)
         c0 == [IdleCall EXCEPT !.ident = ident, !.ticker_upper = tu, !.as_of = as_of,
                                !.max_positions = mp]
     IN
     IF key \in DOMAIN cache
     THEN call' = [c0 EXCEPT !.pc = "done", !.outcome = "ok", !.fromCache = TRUE,
                             !.fund = cache[key].fund, !.snap_as_of = cache[key].as_of,
                             !.version = cache[key].version, !.data = cache[key].data]
     ELSE LET f == ResolveIdentifier(tu) IN
          IF f = None THEN call' = Finish(c0, "NotRegistered")
          ELSE call' = [c0 EXCEPT !.pc = "discover", !.fund = f, !.depth = 1]
  /\ UNCHANGED <<bp, funds, gold, persists, cache, run, comp>>

\* _discover_snapshot up to its first call or return
DiscoverStep ==
  /\ call.pc = "discover"
  /\ LET b == DiscoverBody(call.fund, call.as_of)
         c1 == [call EXCEPT !.reads = @ + 1]
     IN
     CASE b = "ensure" -> call' = [c1 EXCEPT !.pc = "ensure"]
       [] b = "select" ->
            call' = [c1 EXCEPT !.pc = "load",
                               !.snap_as_of = SelectSnapshot(call.fund, call.as_of),
                               !.version = 1]
       [] b = "malformed" ->
            \* raised at depth 1 it reaches the caller; raised in a retry it is
            \* caught by the except clause around the retry, which returns None
            call' = Finish(c1, IF call.depth = 1 THEN "MalformedInput"
                               ELSE "NoSnapshotAvailable")
       [] OTHER -> call' = Finish(c1, "NoSnapshotAvailable")
  /\ UNCHANGED <<bp, funds, gold, persists, cache, run, nOps, comp>>

\* _discover_snapshot, lines 265-292 and 336-364: ensure_snapshot, then the retry
EnsureStep ==
  /\ call.pc = "ensure"
  /\ \E top \in TopHoldings, data \in LiveData, filings \in FilingLists :
       LET r == EnsureSnapshot(call.fund, call.as_of, top, data, filings)
           c1 == [call EXCEPT !.ensureCalls = @ + 1, !.lastEnsure = r.status]
       IN
       /\ funds' = FundsAfter(r)
       /\ persists' = PersistsAfter(r, call.fund)
       /\ IF r.status # "success" THEN call' = Finish(c1, "NoSnapshotAvailable")
          ELSE IF call.depth + 1 > RecursionLimit
               THEN \* RecursionError, caught by the except clause: None
                    call' = Finish(c1, "NoSnapshotAvailable")
               ELSE call' = [c1 EXCEPT !.pc = "discover", !.depth = @ + 1]
  /\ UNCHANGED <<bp, gold, cache, run, nOps, comp>>

\* fetch_holdings, lines 129-156: load, prepare, cache, return
LoadStep ==
  /\ call.pc = "load"
  /\ LET loc == <<ClientFundsDir, ClientFundName(call.fund), call.snap_as_of>>
         res == [fund |-> call.fund, as_of |-> call.snap_as_of,
                 version |-> call.version, data |-> funds[loc],
                 triple |-> <<call.ticker_upper, call.as_of, call.max_positions>>]
         key == CacheKey(call.ticker_upper, call.as_of, call.max_positions)
     IN
     /\ call' = [call EXCEPT !.pc = "done", !.outcome = "ok", !.data = funds[loc],
                             !.reads = @ + 1, !.cacheAdded = TRUE]
     /\ cache' = (key :> res) @@ cache
  /\ UNCHANGED <<bp, funds, gold, persists, run, nOps, comp>>

\* control returns to the caller of the completed operation
Return ==
  /\ call.pc = "done" \/ run.op # "idle"
  /\ call.pc \in {"idle", "done"}
  /\ call' = IdleCall
  /\ run' = IdleRun
  /\ UNCHANGED <<bp, funds, gold, persists, cache, nOps, comp>>

\* ------------------------------------------------------------ history views
StoreOf(orch) ==
  CASE orch = "NPORT" -> NportFundsDir(bp)
    [] orch = "OAM" -> "OAM.gold"
    [] OTHER -> "BDIF.gold"

\* as_of of the newest snapshot ever persisted for the fund in the store
LatestPersisted(store, f) ==
  LET ds == {persists[i].as_of : i \in {j \in 1..Len(persists) :
               /\ persists[j].store = store /\ persists[j].fund = f
               /\ persists[j].as_of \in Dates}}
  IN IF ds = {} THEN NoDate ELSE Max(ds)

IngestFunds == FundIds \cup {"UNREGISTERED"}
Targets == {NoDate} \cup Dates

RunOf(orch, f, target, force, r, noSeries) ==
  [op |-> "ingest", orch |-> orch, fund |-> f, target |-> target, force |-> force,
   outcome |-> r.outcome, net |-> r.net, ncands |-> r.ncands, tried |-> r.tried,
   noSeriesMatch |-> noSeries, reachedQA |-> r.qa # None, qa |-> r.qa,
   wrote |-> r.persist # NoPersist, latestBefore |-> LatestPersisted(StoreOf(orch), f),
   dlFailed |-> r.dlFailed]

\* a persist step undone when QA fails: nothing stays in the store
GoldAfterRollback(orch, f, r) ==
  IF r.persist = NoPersist \/ r.qa = "fail" THEN gold
  ELSE gold \cup
       { [store |-> orch \o ".gold", fund |-> f, as_of |-> r.persist.as_of,
          version |-> NextVersion(orch \o ".gold", f, r.persist.as_of),
          data |-> r.persist.data] }

\* OAM/BDIF _save_silver and _save_gold: version = _next_version(directory)
GoldAfter(orch, f, r) ==
  IF r.persist = NoPersist THEN gold
  ELSE gold \cup
       { [store |-> orch \o ".silver", fund |-> f, as_of |-> r.persist.as_of,
          version |-> NextVersion(orch \o ".silver", f, r.persist.as_of),
          data |-> r.persist.data],
         [store |-> orch \o ".gold", fund |-> f, as_of |-> r.persist.as_of,
          version |-> NextVersion(orch \o ".gold", f, r.persist.as_of),
          data |-> r.persist.data] }

GoldPersistsAfter(orch, f, r) ==
  IF r.persist = NoPersist THEN persists
  ELSE Append(persists,
         [PersistEvent(orch, orch \o ".gold", f, r.persist.as_of,
                       NextVersion(orch \o ".gold", f, r.persist.as_of), r.persist.data)
            EXCEPT !.qa = r.qa])

\* NPORTIngestionPipeline.ingest_fund called by a user
IngestNPORT(f, target, force, filings) ==
  /\ Quiet
  /\ nOps < MaxOps
  /\ nOps' = nOps + 1
  /\ run' = RunOf("NPORT", f, target, force, NPORTIngest(f, target, force, filings),
                  Len(filings) > 0 /\ \A i \in 1..Len(filings) : ~filings[i])
  /\ UNCHANGED <<bp, funds, gold, persists, cache, call, comp>>

\* OAMIngestionPipeline.ingest_fund called by a user
IngestOAM(f, target, force, reports) ==
  /\ Quiet
  /\ nOps < MaxOps
  /\ nOps' = nOps + 1
  /\ LET r == OAMIngest(f, target, force, reports) IN
     /\ run' = RunOf("OAM", f, target, force, r, FALSE)
     /\ gold' = GoldAfter("OAM", f, r)
     /\ persists' = GoldPersistsAfter("OAM", f, r)
  /\ UNCHANGED <<bp, funds, cache, call, comp>>

\* BDIFIngestionPipeline.ingest_fund called by a user
IngestBDIF(f, target, force, reports) ==
  /\ Quiet
  /\ nOps < MaxOps
  /\ nOps' = nOps + 1
  /\ LET r == BDIFIngest(f, target, force, reports) IN
     /\ run' = RunOf("BDIF", f, target, force, r, FALSE)
     /\ gold' = GoldAfter("BDIF", f, r)
     /\ persists' = GoldPersistsAfter("BDIF", f, r)
  /\ UNCHANGED <<bp, funds, cache, call, comp>>

\* NPORTIngestionPipeline._save_gold, the persist step of the N-PORT orchestrator
NPORTSaveGold(f, as_of, data) ==
  /\ Quiet
  /\ nOps < MaxOps
  /\ nOps' = nOps + 1
  /\ LET loc == <<NportFundsDir(bp), NportFundName(f), as_of>> IN
     /\ funds' = [funds EXCEPT ![loc] = data]
     /\ persists' = Append(persists, PersistEvent("NPORT", loc[1], f, as_of, 0, data))
  /\ run' = [IdleRun EXCEPT !.op = "save_gold", !.orch = "NPORT", !.fund = f,
                            !.target = as_of, !.outcome = "true", !.wrote = TRUE]
  /\ UNCHANGED <<bp, gold, cache, call, comp>>

\* AutoSnapshotManager.ensure_snapshot called by a user
EnsureCall(f, as_of) ==
  /\ Quiet
  /\ nOps < MaxOps
  /\ nOps' = nOps + 1
  /\ \E top \in TopHoldings, data \in LiveData, filings \in FilingLists :
       LET r == EnsureSnapshot(f, as_of, top, data, filings) IN
       /\ funds' = FundsAfter(r)
       /\ persists' = PersistsAfter(r, f)
       /\ run' = [IdleRun EXCEPT !.op = "ensure", !.orch = "AUTO", !.fund = f,
                                 !.target = as_of, !.outcome = r.status, !.net = r.net,
                                 !.wrote = r.loc # NoLoc]
  /\ UNCHANGED <<bp, gold, cache, call, comp>>

Next ==
  \/ \E ident \in Idents, as_of \in AsOfArgs, mp \in PosArgs : FetchStart(ident, as_of, mp)
  \/ DiscoverStep
  \/ EnsureStep
  \/ LoadStep
  \/ Return
  \/ \E f \in IngestFunds, t \in Targets, force \in BOOLEAN, fl \in FilingLists :
       IngestNPORT(f, t, force, fl)
  \/ \E f \in IngestFunds, t \in Targets, force \in BOOLEAN, rl \in ReportLists :
       IngestOAM(f, t, force, rl)
  \/ \E f \in IngestFunds, t \in Targets, force \in BOOLEAN, rl \in ReportLists :
       IngestBDIF(f, t, force, rl)
  \/ \E f \in FundIds, d \in Dates, data \in LiveData : NPORTSaveGold(f, d, data)
  \/ \E f \in FundIds, as_of \in AsOfArgs : EnsureCall(f, as_of)

Spec == Init /\ [][Next]_vars

\* fetch_holdings alone, with max_positions given
CachePosArgs == {NoPos, 0, 1}
CacheNext ==
  \/ \E ident \in Idents, as_of \in AsOfArgs, mp \in CachePosArgs : FetchStart(ident, as_of, mp)
  \/ DiscoverStep
  \/ EnsureStep
  \/ LoadStep
  \/ Return

CacheSpec == Init /\ [][CacheNext]_vars

TypeOK ==
  /\ bp \in {"default", "custom"}
  /\ call.pc \in {"idle", "discover", "ensure", "load", "done"}
  /\ run.op \in {"idle", "ingest", "ensure", "save_gold"}
  /\ nOps \in 0..MaxOps

\* ================================================================== claims
\* snapshots of fund f that have ever been persisted under a parseable date
PersistedFor(f) ==
  {persists[i] : i \in {j \in 1..Len(persists) :
                          persists[j].fund = f /\ persists[j].as_of \in Dates}}

\* e is greatest by (as_of, version) in S
GreatestIn(e, S) ==
  \A x \in S : x.as_of < e.as_of \/ (x.as_of = e.as_of /\ x.version <= e.version)

\* C1: with the default base path, a fetch_holdings call that resolves a fund
\* (not answered from the cache, as_of parseable) returns, of the snapshots
\* persisted for the fund (those of the requested date when as_of is given),
\* one whose (as_of, version) is the greatest; it fails only when no such
\* snapshot was ever persisted.
C1_ResolutionPicksMax ==
  (/\ bp = "default"
   /\ call.pc = "done" /\ ~call.fromCache
   /\ call.outcome \in {"ok", "NoSnapshotAvailable"}
   /\ call.as_of # BadDate)
  => LET S == {e \in PersistedFor(call.fund) :
                 call.as_of = NoDate \/ e.as_of = call.as_of}
     IN IF S = {} THEN call.outcome = "NoSnapshotAvailable"
        ELSE /\ call.outcome = "ok"
             /\ \E e \in S : /\ GreatestIn(e, S)
                             /\ call.snap_as_of = e.as_of
                             /\ call.data = e.data

\* C2: of two snapshot writes by the same orchestrator for the same
\* (fund, as_of), the later one carries a strictly greater version number
\* (version 0 stands for a path without a version directory).
C2_VersionsIncrease ==
  \A i, j \in 1..Len(persists) :
    (/\ i < j
     /\ persists[i].writer \in {"NPORT", "OAM", "BDIF"}
     /\ persists[i].writer = persists[j].writer
     /\ persists[i].fund = persists[j].fund
     /\ persists[i].as_of = persists[j].as_of)
    => persists[i].version < persists[j].version

\* the content now stored at the place event e wrote to
StoredAt(e) ==
  IF e.writer \in {"OAM", "BDIF"}
  THEN IF \E g \in gold : /\ g.store = e.store /\ g.fund = e.fund
                          /\ g.as_of = e.as_of /\ g.version = e.version
       THEN (CHOOSE g \in gold : /\ g.store = e.store /\ g.fund = e.fund
                                 /\ g.as_of = e.as_of /\ g.version = e.version).data
       ELSE Absent
  ELSE funds[<<e.store,
               IF e.writer = "AUTO" THEN AutoFundName(e.fund) ELSE NportFundName(e.fund),
               e.as_of>>]

\* C3: every snapshot file ever persisted still holds the content it was
\* written with: nothing is overwritten or deleted.
C3_SnapshotsImmutable ==
  \A i \in 1..Len(persists) : StoredAt(persists[i]) = persists[i].data

\* the registry entry carries the identifier the orchestrator works from
HasSourceId(orch, f) ==
  /\ f \in FundIds
  /\ CASE orch = "NPORT" -> Registry[f].cik # None
       [] orch = "OAM" ->
            \/ Registry[f].isin # None /\ Registry[f].jurisdiction # None
            \/ /\ Registry[f].isin # None \/ Registry[f].share_class_isin # None
               /\ Prefix2(IF Registry[f].isin # None THEN Registry[f].isin
                          ELSE Registry[f].share_class_isin) \in {"LU", "DE"}
       [] OTHER ->
            /\ Registry[f].isin # None \/ Registry[f].share_class_isin # None
            /\ Prefix2(IF Registry[f].isin # None THEN Registry[f].isin
                       ELSE Registry[f].share_class_isin) = "FR"

DefaultFreshness(orch) ==
  CASE orch = "NPORT" -> NPORT_DEFAULT_FRESHNESS
    [] orch = "OAM" -> OAM_DEFAULT_FRESHNESS
    [] OTHER -> BDIF_DEFAULT_FRESHNESS

\* the run just completed was an unforced ingest_fund without target date of a
\* registered fund whose newest snapshot was younger than its freshness_days
FreshRun ==
  /\ run.op = "ingest" /\ run.fund \in FundIds
  /\ ~run.force /\ run.target = NoDate
  /\ run.latestBefore # NoDate
  /\ Today - run.latestBefore <
       (IF Registry[run.fund].freshness_days = Unset THEN DefaultFreshness(run.orch)
        ELSE Registry[run.fund].freshness_days)

\* C4 as stated: every fresh unforced run of a registered fund returns success
\* without network calls or writes; a forced or dated run reaches discovery.
C4_FreshnessAsStated ==
  /\ FreshRun => run.outcome = "true" /\ run.net = 0 /\ ~run.wrote
  /\ (run.op = "ingest" /\ run.fund \in FundIds /\ (run.force \/ run.target # NoDate))
       => run.net >= 1

\* C4: for a registered fund that carries the identifier the orchestrator works
\* from, a fresh unforced run without target date returns success with zero
\* network calls and no write; a forced or dated run proceeds to discovery.
C4_Freshness ==
  (run.op = "ingest" /\ HasSourceId(run.orch, run.fund))
  => /\ FreshRun => run.outcome = "true" /\ run.net = 0 /\ ~run.wrote
     /\ (run.force \/ run.target # NoDate) => run.net >= 1

C4_Witness ==
  /\ FreshRun /\ HasSourceId(run.orch, run.fund)
  /\ run.outcome = "true" /\ run.net = 0

\* C5: a run that returns failure without having persisted anything, after
\* discovery returned candidates, has tried every one of them.
C5_Backtracking ==
  (/\ run.op = "ingest" /\ run.outcome = "false"
   /\ ~run.wrote /\ run.ncands >= 1)
  => run.tried = run.ncands

\* C6: an N-PORT run whose discovery returned filings none of which belongs to
\* the entry's series_id returns failure and persists nothing.
C6_NoSeriesMatchFails ==
  (/\ run.op = "ingest" /\ run.orch = "NPORT"
   /\ run.ncands >= 1 /\ run.noSeriesMatch)
  => run.outcome = "false" /\ ~run.wrote

\* C7: an ingestion run that reached the QA step returns a boolean, and returns
\* true exactly when the QA status is pass.
C7_ReturnIsQAStatus ==
  (run.op = "ingest" /\ run.reachedQA)
  => /\ run.outcome \in {"true", "false"}
     /\ run.outcome = "true" <=> run.qa = "pass"

C7_Witness ==
  /\ run.op = "ingest" /\ run.reachedQA
  /\ run.qa = "fail" /\ run.outcome = "false" /\ run.wrote

\* C8: a completed fetch_holdings call has invoked ensure_snapshot at most once.
C8_EnsureAtMostOnce ==
  call.pc = "done" => call.ensureCalls <= 1

\* date directories of the fund in the store fetch_holdings reads that match
\* the requested as_of
MatchingInStore(f, as_of) ==
  {d \in Dates : /\ funds[<<ClientFundsDir, ClientFundName(f), d>>] # Absent
                 /\ as_of \in {NoDate, d}}

\* C9: a fetch_holdings call that ends with NoSnapshotAvailable has invoked
\* ensure_snapshot, and that invocation either did not report success or left
\* no snapshot matching the request in the store.
C9_SynthesisBeforeFailure ==
  (call.pc = "done" /\ call.outcome = "NoSnapshotAvailable")
  => /\ call.fund \in FundIds
     /\ call.ensureCalls >= 1
     /\ call.lastEnsure # "success" \/ MatchingInStore(call.fund, call.as_of) = {}

C9_Witness ==
  /\ call.pc = "done" /\ call.outcome = "NoSnapshotAvailable"
  /\ call.ensureCalls = 1 /\ call.lastEnsure = "failed"

\* the identifier equals no registered ticker (ignoring case) and no registered ISIN
Unknown(ident) ==
  \A f \in FundIds :
    /\ \A i \in 1..Len(Registry[f].tickers) : Upper(Registry[f].tickers[i]) # Upper(ident)
    /\ Registry[f].isin # Upper(ident)
    /\ Registry[f].share_class_isin # Upper(ident)
    /\ f # Upper(ident)

\* C10: a fetch_holdings call with an identifier that matches no registered
\* ticker and no registered ISIN ends at once with NotRegistered, without an
\* ensure_snapshot call, without a read of the store, and with the stores and
\* the cache unchanged.
C10_UnknownIdentifier ==
  [][(call.pc = "idle" /\ call'.pc # "idle" /\ Unknown(call'.ident))
     => /\ call'.pc = "done" /\ call'.outcome = "NotRegistered"
        /\ call'.ensureCalls = 0 /\ call'.reads = 0 /\ ~call'.cacheAdded
        /\ UNCHANGED <<funds, gold, persists, cache>>]_vars

C10_Witness ==
  /\ call.pc = "done" /\ call.outcome = "NotRegistered"
  /\ Unknown(call.ident) /\ Len(call.ticker_upper) = 12

\* ======================================================= snapshot preparation
MaxRows == 2            \* rows of a snapshot table
MaxCols == 2            \* weight / market-value columns a snapshot carries

NaN == -1                       \* a cell pd.to_numeric(errors="coerce") leaves empty
Vals == {NaN, 0, 1, 3}          \* numeric cell values

\* weight_cols, in priority order
WeightCols == <<"weight_pct_recalc", "weight_pct_issuer", "weight_pct_raw", "Weight">>
MvCols == {"market_value_eur", "market_value_local"}
AllCols == SeqToSet(WeightCols) \cup MvCols

\* Snapshot tables: n rows and, for each weight or market-value column the file
\* carries, its cells.  Every table also carries descriptive columns, so it is
\* empty (df.empty) exactly when it has no rows.
Tables ==
  UNION { { [readable |-> TRUE, n |-> n, cols |-> f] :
              f \in UNION { [C -> [1..n -> Vals]] :
                              C \in {D \in SUBSET AllCols : Cardinality(D) <= MaxCols} } } :
          n \in 0..MaxRows }

\* a holdings.csv without content: pd.read_csv raises EmptyDataError
ZeroBytes == [readable |-> FALSE, n |-> 0, cols |-> <<>>]

\* holdings.csv as found on disk
Files == {ZeroBytes} \cup Tables

\* max_positions: None, or a number of positions
MaxPositions == {NoPos} \cup 0..MaxRows

RECURSIVE SumVals(_, _)
\* Series.sum() over the first k cells: empty cells are skipped
SumVals(v, k) ==
  IF k = 0 THEN 0 ELSE SumVals(v, k - 1) + (IF v[k] = NaN THEN 0 ELSE v[k])

Populated(v, n) == \E i \in 1..n : v[i] # NaN

\* sort_values("Weight", ascending=False): descending, empty cells last
SortDesc(v, n) ==
  CHOOSE q \in [1..n -> Vals] :
    /\ \A x \in Vals : Cardinality({i \in 1..n : q[i] = x}) = Cardinality({i \in 1..n : v[i] = x})
    /\ \A i \in 1..n : \A j \in 1..n : i < j => q[i] >= q[j]

PrepResult(exc, kind, rows, den, src) ==
  [exc |-> exc, kind |-> kind, rows |-> rows, den |-> den, src |-> src]
PrepRaise(exc, kind) == PrepResult(exc, kind, <<>>, 0, None)

\* a faulty column choice: the last populated weight column
LastPopulatedWeightCol(t) ==
  LET idx == {i \in 1..Len(WeightCols) :
                WeightCols[i] \in DOMAIN t.cols /\ Populated(t.cols[WeightCols[i]], t.n)}
  IN IF idx = {} THEN None ELSE WeightCols[CHOOSE i \in idx : \A j \in idx : i >= j]

\* the loop over weight_cols: the first populated column, else None
FirstPopulatedWeightCol(t) ==
  LET idx == {i \in 1..Len(WeightCols) :
                WeightCols[i] \in DOMAIN t.cols /\ Populated(t.cols[WeightCols[i]], t.n)}
  IN IF idx = {} THEN None ELSE WeightCols[CHOOSE i \in idx : \A j \in idx : i <= j]

\* a faulty truncation: head() without the renormalisation that follows it
TruncateNoRenorm(sorted, n, den, max_positions) ==
  IF max_positions = NoPos THEN [rows |-> sorted, den |-> den]
  ELSE LET k == IF max_positions < n THEN max_positions ELSE n IN
       [rows |-> [i \in 1..k |-> sorted[i]], den |-> den]

\* working.head(max_positions); Weight = Weight / Weight.sum()
Truncate(sorted, n, den, max_positions) ==
  IF max_positions = NoPos THEN [rows |-> sorted, den |-> den]
  ELSE LET k == IF max_positions < n THEN max_positions ELSE n
           head == [i \in 1..k |-> sorted[i]]
       IN [rows |-> head, den |-> SumVals(head, k)]

\* PrimaryHoldingsClient._prepare_holdings.  A result row is the numerator of
\* its Weight, den the common denominator: Weight = rows[i] / den.
PrepareHoldings(t, max_positions) ==
  IF t.n = 0 THEN PrepRaise("PrimaryHoldingsError", "EmptySnapshot")
  ELSE
  LET wcol == FirstPopulatedWeightCol(t) IN
  IF wcol = None /\ "market_value_eur" \notin DOMAIN t.cols
                 /\ "market_value_local" \notin DOMAIN t.cols
  THEN \* pd.to_numeric(None) is a float; float has no isna()
       PrepRaise("AttributeError", None)
  ELSE
  LET src == IF wcol # None THEN wcol
             ELSE IF "market_value_eur" \in DOMAIN t.cols THEN "market_value_eur"
             ELSE "market_value_local"
      v == t.cols[src]
      total == SumVals(v, t.n)
  IN
  IF ~Populated(v, t.n) THEN PrepRaise("PrimaryHoldingsError", "PartialData")
  ELSE IF total = 0 THEN PrepRaise("PrimaryHoldingsError", "ZeroWeight")
  ELSE LET r == Truncate(SortDesc(v, t.n), t.n, total, max_positions) IN
       PrepResult("none", "ok", r.rows, r.den, src)

\* fetch_holdings, lines 129-141: _load_snapshot, then _prepare_holdings
LoadAndPrepare(file, max_positions) ==
  IF ~file.readable THEN PrepRaise("EmptyDataError", None)
  ELSE PrepareHoldings(file, max_positions)

IdlePrep ==
  [busy |-> FALSE, file |-> ZeroBytes, max_positions |-> NoPos,
   result |-> PrepRaise(None, None)]

\* fetch_holdings loads and prepares the selected snapshot
PrepareStep(file, max_positions) ==
  /\ ~prep.busy
  /\ prep' = [busy |-> TRUE, file |-> file, max_positions |-> max_positions,
              result |-> LoadAndPrepare(file, max_positions)]
  /\ UNCHANGED <<bp, funds, gold, persists, cache, call, run, nOps, more, gate, http, reg>>

\* the caller takes the result
PrepareReturn ==
  /\ prep.busy
  /\ prep' = IdlePrep
  /\ UNCHANGED <<bp, funds, gold, persists, cache, call, run, nOps, more, gate, http, reg>>

PrepNext ==
  \/ \E file \in Files, mp \in MaxPositions : PrepareStep(file, mp)
  \/ PrepareReturn

PrepInit ==
  /\ bp = "default"
  /\ funds = [l \in FundsLocs |-> Absent]
  /\ gold = {}
  /\ persists = <<>>
  /\ cache = <<>>
  /\ call = IdleCall
  /\ run = IdleRun
  /\ nOps = 0
  /\ MoreIdle
  /\ prep = IdlePrep
  /\ gate = None
  /\ http = None
  /\ reg = None

PrepSpec == PrepInit /\ [][PrepNext]_vars

\* C11: a fetch_holdings call for a registered fund with an as_of string that
\* is no YYYY-MM-DD date ends with MalformedInput.
C11_BadAsOfIsMalformed ==
  (call.pc = "done" /\ call.fund \in FundIds /\ call.as_of = BadDate)
  => call.outcome = "MalformedInput"

\* C12: preparing a snapshot that pd.read_csv could read ends without an
\* exception or with the facade's own error, and a non-empty snapshot that
\* carries neither a weight column nor a market-value column is reported as
\* PartialData.
C12_OnlyFacadeErrors ==
  (prep.busy /\ prep.file.readable) =>
    /\ prep.result.exc \in {"none", "PrimaryHoldingsError"}
    /\ (prep.file.n >= 1 /\ DOMAIN prep.file.cols = {})
         => prep.result.kind = "PartialData"

\* C13: a call answered from the cache reads neither the registry nor the
\* store and gets the entry that a call with the same (identifier, as_of,
\* max_positions) stored; a call that raises adds no entry.
C13_CacheKeyedByTriple ==
  /\ (call.pc = "done" /\ call.fromCache)
       => LET e == cache[CacheKey(call.ticker_upper, call.as_of, call.max_positions)] IN
          /\ call.reads = 0 /\ call.ensureCalls = 0
          /\ call.data = e.data /\ call.snap_as_of = e.as_of
          /\ e.triple = <<call.ticker_upper, call.as_of, call.max_positions>>
  /\ (call.pc = "done" /\ call.outcome # "ok") => ~call.cacheAdded

\* ---- the prepared table, read back from a finished preparation
PrepOk == prep.busy /\ prep.result.exc = "none"
RowCount == Cardinality(DOMAIN prep.result.rows)
SourceCol == prep.file.cols[prep.result.src]
CountIn(v, k, x) == Cardinality({i \in 1..k : v[i] = x})

\* the Weight column sums to exactly one: the numerators add up to the
\* common denominator
WeightsSumToOne ==
  /\ prep.result.den # 0
  /\ SumVals(prep.result.rows, RowCount) = prep.result.den

\* the column the weights come from, as the specification words it
SourceAsSpecified ==
  LET cols == DOMAIN prep.file.cols
      pop(c) == c \in cols /\ Populated(prep.file.cols[c], prep.file.n)
  IN \/ \E i \in 1..Len(WeightCols) :
          /\ pop(WeightCols[i])
          /\ \A j \in 1..(i - 1) : ~pop(WeightCols[j])
          /\ prep.result.src = WeightCols[i]
     \/ /\ \A i \in 1..Len(WeightCols) : ~pop(WeightCols[i])
        /\ prep.result.src \in MvCols \cap cols
        /\ ("market_value_eur" \notin cols => prep.result.src = "market_value_local")

\* without truncation every position keeps its value as numerator and the
\* column total is the denominator: weights proportional to the source column
Proportional ==
  prep.max_positions = NoPos =>
    /\ RowCount = prep.file.n
    /\ \A x \in Vals : CountIn(prep.result.rows, RowCount, x) = CountIn(SourceCol, prep.file.n, x)
    /\ prep.result.den = SumVals(SourceCol, prep.file.n)

TopRows ==
  LET in(x) == CountIn(prep.result.rows, RowCount, x)
      all(x) == CountIn(SourceCol, prep.file.n, x)
  IN /\ \A x \in Vals : in(x) <= all(x)
     /\ \A x \in Vals : \A y \in Vals : (in(x) > 0 /\ in(y) < all(y)) => y <= x
     /\ \A i \in 1..RowCount : \A j \in 1..RowCount : i < j => prep.result.rows[i] >= prep.result.rows[j]

MinOf(a, b) == IF a < b THEN a ELSE b

MIN_IDENTIFIER_COVERAGE == 980      \* NPORTQualityAssurance, tenths of a percent

QAColumns ==
  {"weight_pct", "isin", "cusip",
   "instrument_name_raw", "market_value_local", "as_of", "fund_id"}
\* required_cols of the N-PORT gate
RequiredCols == {"instrument_name_raw", "market_value_local", "as_of", "fund_id"}

QARowCounts == {0, 1, 100}                 \* len(df)
QANullCounts == 0..3                       \* rows with a null identifier
QAWeightSums == {0, 994, 995, 1005, 1006}  \* df['weight_pct'].sum(), tenths of a percent

\* Gold holdings handed to a gate: the columns present, the row count, the sum
\* of weight_pct and the numbers of rows whose isin, cusip, or both are null.
\* A count is 0 when its column is absent.
QAFrames ==
  { df \in [n : QARowCounts, cols : SUBSET QAColumns, weight_sum : QAWeightSums,
            null_isin : QANullCounts, null_cusip : QANullCounts, null_both : QANullCounts] :
      /\ df.n = 0 => df.weight_sum = 0
      /\ "weight_pct" \notin df.cols => df.weight_sum = 0
      /\ "isin" \notin df.cols => df.null_isin = 0
      /\ "cusip" \notin df.cols => df.null_cusip = 0
      /\ df.null_both <= df.null_isin /\ df.null_both <= df.null_cusip
      /\ ("isin" \notin df.cols \/ "cusip" \notin df.cols) => df.null_both = 0
      /\ df.null_isin + df.null_cusip - df.null_both <= df.n }

QAResult(exc, status, passed, failed, top10) ==
  [exc |-> exc, status |-> status, checks_passed |-> passed,
   checks_failed |-> failed, top10 |-> top10]

\* coverage_pct >= threshold, for k unresolved rows out of n
CoverageOK(k, n, threshold) == 1000 * (n - k) >= threshold * n

\* status = 'pass' if not checks_failed else 'fail'
StatusOf(failed) == IF failed = {} THEN "pass" ELSE "fail"

\* NPORTQualityAssurance.validate_holdings.  unresolved is a numpy.int64 when
\* an identifier column is present; json.dump in _write_report rejects it.
NPORTValidateHoldings(df) ==
  IF df.n = 0 THEN QAResult("none", "fail", {}, {"empty"}, FALSE)
  ELSE
  LET hasW == "weight_pct" \in df.cols
      weightOK == hasW /\ (WEIGHT_SUM_MIN <= df.weight_sum /\ df.weight_sum <= WEIGHT_SUM_MAX)
      unresolved == IF "isin" \in df.cols /\ "cusip" \in df.cols THEN df.null_both
                    ELSE IF "isin" \in df.cols THEN df.null_isin
                    ELSE IF "cusip" \in df.cols THEN df.null_cusip
                    ELSE 0
      covOK == CoverageOK(unresolved, df.n, MIN_IDENTIFIER_COVERAGE)
      colsOK == RequiredCols \subseteq df.cols
      passed == (IF weightOK THEN {"weight_sum"} ELSE {})
                \cup (IF covOK THEN {"coverage"} ELSE {})
                \cup (IF hasW THEN {"top10"} ELSE {})
                \cup (IF colsOK THEN {"columns"} ELSE {})
      failed == (IF weightOK THEN {} ELSE {"weight_sum"})
                \cup (IF covOK THEN {} ELSE {"coverage"})
                \cup (IF colsOK THEN {} ELSE {"columns"})
  IN IF "isin" \in df.cols \/ "cusip" \in df.cols
     THEN QAResult("TypeError", None, {}, {}, FALSE)
     ELSE QAResult("none", StatusOf(failed), passed, failed, hasW)

\* BDIFQualityAssurance.validate_holdings
BDIFValidateHoldings(df) ==
  IF df.n = 0 THEN QAResult("none", "fail", {}, {"empty"}, FALSE)
  ELSE
  LET hasW == "weight_pct" \in df.cols
      weightOK == hasW /\ (WEIGHT_SUM_MIN <= df.weight_sum /\ df.weight_sum <= WEIGHT_SUM_MAX)
      missing_isin == IF "isin" \in df.cols THEN df.null_isin ELSE df.n
      covOK == CoverageOK(missing_isin, df.n, MIN_ISIN_COVERAGE)
      passed == (IF weightOK THEN {"weight_sum"} ELSE {})
                \cup (IF covOK THEN {"coverage"} ELSE {})
                \cup (IF hasW THEN {"top10"} ELSE {})
      failed == (IF weightOK THEN {} ELSE {"weight_sum"})
                \cup (IF covOK THEN {} ELSE {"coverage"})
  IN QAResult("none", StatusOf(failed), passed, failed, hasW)

IdleGate ==
  [busy |-> FALSE, source |-> None,
   df |-> [n |-> 0, cols |-> {}, weight_sum |-> 0, null_isin |-> 0,
           null_cusip |-> 0, null_both |-> 0],
   result |-> QAResult(None, None, {}, {}, FALSE)]

\* the N-PORT orchestrator runs its gate on the persisted holdings
NPORTValidateStep(df) ==
  /\ ~gate.busy
  /\ gate' = [busy |-> TRUE, source |-> "NPORT", df |-> df,
              result |-> NPORTValidateHoldings(df)]
  /\ UNCHANGED <<bp, funds, gold, persists, cache, call, run, nOps, more, prep, http, reg>>

\* the BDIF orchestrator runs its gate on the persisted holdings
BDIFValidateStep(df) ==
  /\ ~gate.busy
  /\ gate' = [busy |-> TRUE, source |-> "BDIF", df |-> df,
              result |-> BDIFValidateHoldings(df)]
  /\ UNCHANGED <<bp, funds, gold, persists, cache, call, run, nOps, more, prep, http, reg>>

\* the orchestrator takes the result
ValidateReturn ==
  /\ gate.busy
  /\ gate' = IdleGate
  /\ UNCHANGED <<bp, funds, gold, persists, cache, call, run, nOps, more, prep, http, reg>>

QANext ==
  \/ \E df \in QAFrames : NPORTValidateStep(df)
  \/ \E df \in QAFrames : BDIFValidateStep(df)
  \/ ValidateReturn

QAInit ==
  /\ bp = "default"
  /\ funds = [l \in FundsLocs |-> Absent]
  /\ gold = {}
  /\ persists = <<>>
  /\ cache = <<>>
  /\ call = IdleCall
  /\ run = IdleRun
  /\ nOps = 0
  /\ MoreIdle
  /\ prep = None
  /\ gate = IdleGate
  /\ http = None
  /\ reg = None

QASpec == QAInit /\ [][QANext]_vars

\* rows of the frame that carry no identifier the gate accepts: for N-PORT an
\* ISIN or a CUSIP, for BDIF an ISIN
RowsWithoutIdentifier ==
  LET df == gate.df IN
  IF gate.source = "NPORT"
  THEN IF "isin" \in df.cols /\ "cusip" \in df.cols THEN df.null_both
       ELSE IF "isin" \in df.cols THEN df.null_isin
       ELSE IF "cusip" \in df.cols THEN df.null_cusip
       ELSE df.n
  ELSE IF "isin" \in df.cols THEN df.null_isin ELSE df.n

\* C16: a gate run on non-empty holdings returns a result; its status is fail
\* when the weight sum is outside [99.5, 100.5], when fewer than 98% of the
\* rows carry an identifier, or when a required column is missing, and pass
\* otherwise; the top-10 concentration is never among the failed checks.
C16_QAGate ==
  (gate.busy /\ gate.df.n > 0) =>
    LET df == gate.df
        weightBad == df.weight_sum < WEIGHT_SUM_MIN \/ df.weight_sum > WEIGHT_SUM_MAX
        covBad == ~CoverageOK(RowsWithoutIdentifier, df.n, MIN_IDENTIFIER_COVERAGE)
        colsBad == \/ "weight_pct" \notin df.cols
                   \/ gate.source = "NPORT" /\ ~(RequiredCols \subseteq df.cols)
    IN /\ gate.result.exc = "none"
       /\ gate.result.status = (IF weightBad \/ covBad \/ colsBad THEN "fail" ELSE "pass")
       /\ "top10" \notin gate.result.checks_failed

\* ------------------------------------------------- discovery and download
MAX_RETRIES == 3        \* BDIFDiscovery, NPORTDownloader, OAMDownloader
NumQueries == 4         \* search_queries of BDIFDiscovery.discover_reports

Adapters == {"NPORT", "OAM", "BDIF"}

\* what a source answers with: the as_of dates of the matching records, in
\* the order the source lists them
DateLists == UNION {[1..n -> Dates] : n \in 0..MaxCand}

CountDate(s, d) == Cardinality({i \in 1..Len(s) : s[i] = d})
SameDates(q, s) == Len(q) = Len(s) /\ \A d \in Dates : CountDate(q, d) = CountDate(s, d)

\* a faulty sort: the list is returned in the order of the source
KeepOrder(s) == s

\* list.sort(key=as_of, reverse=True)
SortDatesDesc(s) ==
  CHOOSE q \in [1..Len(s) -> Dates] :
    SameDates(q, s) /\ \A i \in 1..Len(s) : \A j \in 1..Len(s) : i < j => q[i] >= q[j]

\* results.sort(key=lambda f: f.filing_date)
SortDatesAsc(s) ==
  CHOOSE q \in [1..Len(s) -> Dates] :
    SameDates(q, s) /\ \A i \in 1..Len(s) : \A j \in 1..Len(s) : i < j => q[i] <= q[j]

\* the records of a BDIF payload kept for target_date
FilterDate(s, target) ==
  IF target = NoDate THEN s
  ELSE [i \in 1..CountDate(s, target) |-> target]

NetResult(exc, list, path) == [exc |-> exc, list |-> list, path |-> path]

IdleHttp ==
  [pc |-> "idle", op |-> None, adapter |-> None, target |-> NoDate,
   query |-> 0, attempt |-> 0, maxAttempts |-> 0, gaveUpAt |-> 0, slept |-> 0,
   exhausted |-> FALSE, resp |-> <<>>, raw |-> FALSE, sidecar |-> FALSE,
   result |-> NetResult(None, <<>>, FALSE)]

NetCall(op, adapter, target) ==
  [IdleHttp EXCEPT !.pc = "request", !.op = op, !.adapter = adapter,
                   !.target = target, !.query = 1]

NetDone(h, list, path) ==
  [h EXCEPT !.pc = "done", !.result = NetResult("none", list, path)]

\* one more attempt has been made on the current request
Attempted(h) ==
  [h EXCEPT !.attempt = h.attempt + 1,
            !.maxAttempts = Max({h.maxAttempts, h.attempt + 1})]

\* NPORTDiscovery.discover_filings with _fetch_json: one attempt
NPORTDiscoverOn(h, failed, records) ==
  LET a == Attempted(h) IN
  IF failed
  THEN NetDone([a EXCEPT !.gaveUpAt = a.attempt, !.exhausted = TRUE], <<>>, FALSE)
  ELSE NetDone([a EXCEPT !.resp = records], SortDatesAsc(records), FALSE)

\* OAMDiscovery.discover_reports with _discover_lu_oam: one attempt
OAMDiscoverOn(h, failed, records) ==
  LET a == Attempted(h) IN
  IF failed
  THEN NetDone([a EXCEPT !.gaveUpAt = a.attempt, !.exhausted = TRUE], <<>>, FALSE)
  ELSE NetDone([a EXCEPT !.resp = records], SortDatesDesc(records), FALSE)

\* BDIFDiscovery.discover_reports: the next search query, or the end of the loop
BDIFNextQuery(h) ==
  IF h.query < NumQueries
  THEN [h EXCEPT !.query = h.query + 1, !.attempt = 0]
  ELSE NetDone(h, <<>>, FALSE)

\* BDIFDiscovery.discover_reports with _get_json
BDIFDiscoverOn(h, failed, records) ==
  LET a == Attempted(h) IN
  IF failed
  THEN IF a.attempt >= MAX_RETRIES
       THEN BDIFNextQuery([a EXCEPT !.gaveUpAt = a.attempt, !.exhausted = TRUE])
       ELSE [a EXCEPT !.slept = a.slept + 1]
  ELSE LET kept == FilterDate(records, h.target)
           b == [a EXCEPT !.resp = records, !.exhausted = FALSE]
       IN IF Len(kept) > 0 THEN NetDone(b, SortDatesDesc(kept), FALSE)
          ELSE BDIFNextQuery(b)

\* _download_with_retry of NPORTDownloader and OAMDownloader, then the writes
\* of the raw file and of metadata.json
RetryingDownloadOn(h, failed) ==
  LET a == Attempted(h) IN
  IF failed
  THEN IF a.attempt < MAX_RETRIES
       THEN [a EXCEPT !.slept = a.slept + 1]
       ELSE NetDone([a EXCEPT !.gaveUpAt = a.attempt, !.exhausted = TRUE], <<>>, FALSE)
  ELSE NetDone([a EXCEPT !.raw = TRUE, !.sidecar = TRUE], <<>>, TRUE)

\* BDIFDownloader.download_report: one attempt
BDIFDownloadOn(h, failed) ==
  LET a == Attempted(h) IN
  IF failed
  THEN NetDone([a EXCEPT !.gaveUpAt = a.attempt, !.exhausted = TRUE], <<>>, FALSE)
  ELSE NetDone([a EXCEPT !.raw = TRUE, !.sidecar = TRUE], <<>>, TRUE)

NetUnchanged == UNCHANGED <<bp, funds, gold, persists, cache, call, run, nOps, more, prep, gate, reg>>

\* NPORTDiscovery.discover_filings is called
NPORTDiscoverStart ==
  /\ http.pc = "idle"
  /\ http' = NetCall("discover", "NPORT", NoDate)
  /\ NetUnchanged

\* OAMDiscovery.discover_reports is called
OAMDiscoverStart(target) ==
  /\ http.pc = "idle"
  /\ http' = NetCall("discover", "OAM", target)
  /\ NetUnchanged

\* BDIFDiscovery.discover_reports is called
BDIFDiscoverStart(target) ==
  /\ http.pc = "idle"
  /\ http' = NetCall("discover", "BDIF", target)
  /\ NetUnchanged

\* a downloader is called for one URL
DownloadStart(adapter) ==
  /\ http.pc = "idle"
  /\ http' = NetCall("download", adapter, NoDate)
  /\ NetUnchanged

\* the source answers a discovery request, or the request fails
DiscoverRespond(failed, records) ==
  /\ http.pc = "request" /\ http.op = "discover"
  /\ http' = CASE http.adapter = "NPORT" -> NPORTDiscoverOn(http, failed, records)
               [] http.adapter = "OAM" -> OAMDiscoverOn(http, failed, records)
               [] OTHER -> BDIFDiscoverOn(http, failed, records)
  /\ NetUnchanged

\* the source answers a download request, or the request fails
DownloadRespond(failed) ==
  /\ http.pc = "request" /\ http.op = "download"
  /\ http' = IF http.adapter = "BDIF" THEN BDIFDownloadOn(http, failed)
             ELSE RetryingDownloadOn(http, failed)
  /\ NetUnchanged

\* the caller takes the result
NetReturn ==
  /\ http.pc = "done"
  /\ http' = IdleHttp
  /\ NetUnchanged

NetNext ==
  \/ NPORTDiscoverStart
  \/ \E target \in Targets : OAMDiscoverStart(target)
  \/ \E target \in Targets : BDIFDiscoverStart(target)
  \/ \E adapter \in Adapters : DownloadStart(adapter)
  \/ \E failed \in BOOLEAN, records \in DateLists : DiscoverRespond(failed, records)
  \/ \E failed \in BOOLEAN : DownloadRespond(failed)
  \/ NetReturn

NetInit ==
  /\ bp = "default"
  /\ funds = [l \in FundsLocs |-> Absent]
  /\ gold = {}
  /\ persists = <<>>
  /\ cache = <<>>
  /\ call = IdleCall
  /\ run = IdleRun
  /\ nOps = 0
  /\ MoreIdle
  /\ prep = None
  /\ gate = None
  /\ http = IdleHttp
  /\ reg = None

NetSpec == NetInit /\ [][NetNext]_vars

Discovered == http.pc = "done" /\ http.op = "discover"

\* C17: a discovery call ends without an exception, no request has been
\* attempted more than 3 times, a request that failed was given up only after
\* its third attempt, and a call whose last request was given up returns the
\* empty list.
C17_DiscoveryRetries ==
  Discovered =>
    /\ http.result.exc = "none"
    /\ http.maxAttempts <= 3
    /\ http.gaveUpAt \in {0, 3}
    /\ http.exhausted => http.result.list = <<>>

Descending(s) == \A i \in 1..Len(s) : \A j \in 1..Len(s) : i < j => s[i] >= s[j]
Ascending(s) == \A i \in 1..Len(s) : \A j \in 1..Len(s) : i < j => s[i] <= s[j]
Distance(d, target) == IF d >= target THEN d - target ELSE target - d
ByCloseness(s, target) ==
  \A i \in 1..Len(s) : \A j \in 1..Len(s) :
    i < j => Distance(s[i], target) <= Distance(s[j], target)

\* C19 as the specification states it: every adapter returns its list most
\* recent first, or ranked by closeness to target_date when one is given.
C19_AsStated ==
  Discovered =>
    \/ Descending(http.result.list)
    \/ http.target # NoDate /\ ByCloseness(http.result.list, http.target)

\* C19: the OAM and BDIF adapters return their list most recent first, the
\* BDIF list holding only reports dated target_date when one is given; the
\* N-PORT adapter returns its list oldest filing first.  Each list holds the
\* records of the source's answer that the adapter kept.
C19_DiscoveryOrder ==
  Discovered =>
    /\ http.adapter \in {"OAM", "BDIF"} => Descending(http.result.list)
    /\ http.adapter = "NPORT" => Ascending(http.result.list)
    /\ (http.adapter = "BDIF" /\ http.target # NoDate)
         => \A i \in 1..Len(http.result.list) : http.result.list[i] = http.target
    /\ (http.adapter \in {"OAM", "NPORT"} /\ ~http.exhausted)
         => SameDates(http.result.list, http.resp)

\* the OAM source listed an older report before a newer one and the adapter
\* returned the newer one first
C19_Witness ==
  /\ Discovered /\ http.adapter = "OAM"
  /\ http.resp = <<1, 2>> /\ http.result.list = <<2, 1>>

\* C18: an ingestion run whose downloader call delivered no file does not end
\* with an exception, and when discovery had returned further candidates it
\* has tried a second one.
C18_DownloadFailureHandled ==
  (run.op = "ingest" /\ run.dlFailed) =>
    /\ run.outcome \in {"true", "false"}
    /\ run.ncands >= 2 => run.tried >= 2

\* C18, for one downloader call: at most 3 attempts are made, and a call
\* whose attempts all failed returns no path and has written neither the raw
\* file nor metadata.json.
C18_DownloadAttempts ==
  (http.pc = "done" /\ http.op = "download") =>
    /\ http.result.exc = "none"
    /\ http.maxAttempts <= MAX_RETRIES
    /\ http.exhausted => ~http.result.path /\ ~http.raw /\ ~http.sidecar

\* --------------------------------------------------------- auto-registry
\* A registry entry is a function from the keys it carries to their values;
\* a key with the YAML value null maps to None.  A one-element ticker list is
\* written as its element.
RegIsins == {None, "LU0000000001", "US0000000003"}
RegTickers == {None, "LUXT"}
\* what the yfinance lookup gives: nothing, a name and symbol, or those and a cik
RegInfos == {"down", "named", "cik"}
AssetTypes == {"etf", "stock"}

\* isin[:2]
RegDomicile(isin) ==
  IF isin = None THEN None
  ELSE IF isin = "US0000000003" THEN "US" ELSE Prefix2(isin)

\* the entry of another fund, which no call below names
OtherFund == [fund_id |-> "OTHER", tickers |-> "OTH", auto_source |-> "yfinance"]

\* entries under which the Luxembourg fund may already be registered
ExistingEntries ==
  { [fund_id |-> "LU0000000001", isin |-> "LU0000000001", domicile |-> "LU"] @@ extra :
      extra \in UNION { [K -> {"old"}] :
                          K \in SUBSET {"auto_source", "tickers", "freshness_days", "name"} } }

\* registry['funds'] as found in fund_registry.yaml
RegistryFiles ==
  { [f \in {"OTHER"} |-> OtherFund] } \cup
  { [f \in {"OTHER", "LU0000000001"} |-> IF f = "OTHER" THEN OtherFund ELSE e] :
      e \in ExistingEntries }

Truthy(e, k) == k \in DOMAIN e /\ e[k] # None

\* _find_existing_entry
FindExistingEntry(fs, isin, ticker) ==
  IF ticker # None /\ ticker \in DOMAIN fs THEN ticker
  ELSE IF isin # None /\ \E f \in DOMAIN fs :
            \/ ("share_class_isin" \in DOMAIN fs[f] /\ fs[f]["share_class_isin"] = isin)
            \/ ("isin" \in DOMAIN fs[f] /\ fs[f]["isin"] = isin)
            \/ f = isin
       THEN CHOOSE f \in DOMAIN fs :
            \/ ("share_class_isin" \in DOMAIN fs[f] /\ fs[f]["share_class_isin"] = isin)
            \/ ("isin" \in DOMAIN fs[f] /\ fs[f]["isin"] = isin)
            \/ f = isin
       ELSE None

\* _discover_fund_entry, for isin or ticker given
DiscoverFundEntry(fs, isin, ticker, info) ==
  LET domicile == RegDomicile(isin)
      holders == {f \in DOMAIN fs :
                    /\ \/ ("share_class_isin" \in DOMAIN fs[f] /\ fs[f]["share_class_isin"] = isin)
                       \/ ("isin" \in DOMAIN fs[f] /\ fs[f]["isin"] = isin)
                    /\ Truthy(fs[f], "tickers")}
      \* lines 229-245: the ticker of a registry entry with this ISIN
      ticker1 == IF isin # None /\ ticker = None /\ holders # {}
                 THEN fs[CHOOSE f \in holders : TRUE]["tickers"] ELSE ticker
      up == info # "down"
      \* lines 257-261: the symbol yfinance reports
      ticker2 == IF up /\ ticker1 = None THEN "SYM" ELSE ticker1
      base == [fund_id |-> IF ticker2 # None THEN ticker2 ELSE isin,
               share_class_isin |-> isin, domicile |-> domicile]
      live == IF up THEN [name |-> "Live Name", issuer |-> "Live Issuer"] ELSE <<>>
      symb == IF up /\ ticker1 = None THEN [tickers |-> "SYM"] ELSE <<>>
      tick == IF ticker2 # None THEN [tickers |-> ticker2] ELSE <<>>
  IN IF info = "cik" /\ domicile = "US"
     THEN tick @@ [cik |-> "0000000003", freshness_days |-> "30", gold_path |-> "fund_id"]
          @@ live @@ symb @@ base
     ELSE IF domicile \in {"LU", "DE"}
     THEN [fund_id |-> isin, isin |-> isin, oam |-> "LuxSE", freshness_days |-> "210",
           gold_path |-> "isin", auto_source |-> "yfinance"]
          @@ tick @@ live @@ symb @@ base
     ELSE tick @@ [auto_source |-> "yfinance", freshness_days |-> "30", gold_path |-> "fund_id"]
          @@ live @@ symb @@ base

\* lines 350-354: auto_source for European funds
WithAutoSource(e) ==
  IF Truthy(e, "domicile") /\ e["domicile"] \in {"LU", "DE"} /\ ~Truthy(e, "auto_source")
  THEN [auto_source |-> "yfinance"] @@ e ELSE e

\* _add_registry_entry saving only the entry it was given
SaveOnlyEntry(fs, fund_id, entry) ==
  [f \in {fund_id} |-> WithAutoSource(entry)]

\* lines 337-339: every non-None value of the discovered entry is written
\* into the existing one
MergeEntry(existing, entry) ==
  [k \in DOMAIN existing \cup {x \in DOMAIN entry : entry[x] # None} |->
     IF k \in DOMAIN entry /\ entry[k] # None THEN entry[k] ELSE existing[k]]

\* _add_registry_entry: the registry that is saved
AddRegistryEntry(fs, fund_id, entry) ==
  LET final == IF fund_id \in DOMAIN fs THEN MergeEntry(fs[fund_id], entry) ELSE entry
  IN [f \in DOMAIN fs \cup {fund_id} |-> IF f = fund_id THEN WithAutoSource(final) ELSE fs[f]]

IdleReg(fs, ops) ==
  [pc |-> "idle", funds |-> fs, before |-> fs, isin |-> None, ticker |-> None,
   patched |-> None, added |-> None, ret |-> None, ops |-> ops]

\* AutoRegistry.ensure_fund_registered
EnsureFundRegistered(isin, ticker, asset_type, info) ==
  /\ reg.pc = "idle"
  /\ reg.ops < MaxOps
  /\ asset_type = "stock" => (ticker # None /\ info # "down")
  /\ LET fs == reg.funds
         fund_id == FindExistingEntry(fs, isin, ticker)
         byArg == IF ticker # None THEN ticker ELSE isin
         call0 == [reg EXCEPT !.pc = "done", !.before = fs, !.isin = isin,
                              !.ticker = ticker, !.ops = reg.ops + 1]
     IN reg' =
          IF asset_type # "etf" THEN [call0 EXCEPT !.ret = byArg]
          ELSE IF fund_id # None
          THEN LET e == fs[fund_id]
                   needs_update ==
                     \/ (Truthy(e, "domicile") /\ e["domicile"] \in {"LU", "DE"}
                         /\ ~Truthy(e, "auto_source"))
                     \/ (~Truthy(e, "tickers") /\ ticker # None)
               IN IF needs_update /\ (isin # None \/ ticker # None)
                  THEN [call0 EXCEPT !.ret = fund_id, !.patched = fund_id,
                          !.funds = AddRegistryEntry(fs, fund_id,
                                      DiscoverFundEntry(fs, isin, ticker, info))]
                  ELSE [call0 EXCEPT !.ret = fund_id]
          ELSE IF isin = None /\ ticker = None THEN [call0 EXCEPT !.ret = None]
          ELSE LET entry == DiscoverFundEntry(fs, isin, ticker, info)
                   new_id == entry["fund_id"]
               IN [call0 EXCEPT !.ret = new_id, !.added = new_id,
                                !.funds = AddRegistryEntry(fs, new_id, entry)]
  /\ UNCHANGED <<bp, funds, gold, persists, cache, call, run, nOps, more, prep, gate, http>>

\* the caller takes the fund id
RegReturn ==
  /\ reg.pc = "done"
  /\ reg' = IdleReg(reg.funds, reg.ops)
  /\ UNCHANGED <<bp, funds, gold, persists, cache, call, run, nOps, more, prep, gate, http>>

RegNext ==
  \/ \E isin \in RegIsins, ticker \in RegTickers, asset_type \in AssetTypes, info \in RegInfos :
       EnsureFundRegistered(isin, ticker, asset_type, info)
  \/ RegReturn

RegInit ==
  /\ bp = "default"
  /\ funds = [l \in FundsLocs |-> Absent]
  /\ gold = {}
  /\ persists = <<>>
  /\ cache = <<>>
  /\ call = IdleCall
  /\ run = IdleRun
  /\ nOps = 0
  /\ MoreIdle
  /\ prep = None
  /\ gate = None
  /\ http = None
  /\ \E fs \in RegistryFiles : reg = IdleReg(fs, 0)

RegSpec == RegInit /\ [][RegNext]_vars

\* C20: after ensure_fund_registered has patched an entry that existed, every
\* key the entry had is still there with the value it had, and the entry of
\* every other fund is as it was.
C20_MergeOnlyFills ==
  (reg.pc = "done" /\ reg.patched # None) =>
    LET old == reg.before[reg.patched]
        new == reg.funds[reg.patched]
    IN /\ \A k \in DOMAIN old : k \in DOMAIN new /\ new[k] = old[k]
       /\ \A f \in DOMAIN reg.before : f # reg.patched => reg.funds[f] = reg.before[f]

\* C21: an ensure_snapshot call returns a result (success or failure) and
\* never raises; for an entry with neither a CIK nor the yfinance source it
\* fails and writes nothing; for an entry with a CIK it writes nothing itself;
\* a snapshot it writes is dated today.
C21_EnsureSnapshotContract ==
  run.op = "ensure" =>
    LET e == Registry[run.fund] IN
    /\ run.outcome \in {"success", "failed"}
    /\ (e.cik = None /\ e.auto_source # "yfinance") => (run.outcome = "failed" /\ ~run.wrote)
    /\ e.cik # None => ~run.wrote
    /\ run.wrote => /\ run.outcome = "success"
                    /\ persists[Len(persists)].writer = "AUTO"
                    /\ persists[Len(persists)].as_of = Today

\* C22: an ingestion run that obtained its document never raises out of the
\* parser: an unreadable or malformed document yields an empty holdings list
\* and the run returns a result.
C22_ParserNeverRaises ==
  (run.op = "ingest" /\ run.tried > 0 /\ ~run.dlFailed) => run.outcome # "raised"

\* ===================================================================
\* Enrichment: NPORTEnrichment.enrich_holdings, BDIFEnrichment.enrich_holdings
\* ===================================================================
\* A frame is [cols, rows]: the column names present and the rows. A row
\* carries a cell for every column the two enrichers read or write; a cell of
\* an absent column is NaN (numeric) or None (text).
Hundred == 10000                \* 100.0 per cent, in hundredths of a per cent
Short == -2                     \* a negative market value (short position)
MarketValues == {NaN, Short, 2, 6}
CountryRaws == {None, "", "usa", "fr"}
CategoryRaws == {None, "debt", "equity-common"}
IsinRaws == {None, "fr0000000002"}
ParsedWeights == {NaN, 5000}    \* weight_pct cell written by the BDIF parser

\* str.upper() on the values that occur
StrUpper(s) ==
  CASE s = "usa" -> "USA"
    [] s = "fr" -> "FR"
    [] s = "fr0000000002" -> "FR0000000002"
    [] s = "None" -> "NONE"
    [] s = "Unknown" -> "UNKNOWN"
    [] OTHER -> s

\* str.title() on the values that occur
StrTitle(s) ==
  CASE s = "debt" -> "Debt"
    [] s = "equity-common" -> "Equity-Common"
    [] OTHER -> s

\* str[:2]
StrPrefix2(s) ==
  CASE s = "FR0000000002" -> "FR"
    [] s = "NONE" -> "NO"
    [] OTHER -> s

\* Series.replace(country_map)
CountryMap(s) ==
  CASE s \in {"US", "USA", "UNITED STATES"} -> "US"
    [] s \in {"GB", "UK", "UNITED KINGDOM"} -> "GB"
    [] s \in {"UNKNOWN", ""} -> "Unknown"
    [] OTHER -> s

\* Series.replace(asset_class_map)
AssetClassMap(s) ==
  CASE s \in {"Equity", "Equity-common", "Equity-preferred"} -> "Equity"
    [] s \in {"Debt", "Debt-corporate", "Debt-government", "Debt-sovereign",
              "Convertible"} -> "Fixed Income"
    [] s \in {"Derivative-equity", "Derivative-commodity", "Derivative-credit",
              "Derivative-foreign Exchange", "Derivative-interest Rate"} -> "Derivatives"
    [] s \in {"Repurchase Agreement", "Cash"} -> "Cash"
    [] s \in {"Unknown", ""} -> "Other"
    [] OTHER -> s

SilverRow(mv_local, mv_eur, country_raw, category_raw, isin, weight) ==
  [market_value_local |-> mv_local, market_value_eur |-> mv_eur,
   country_raw |-> country_raw, category_raw |-> category_raw, isin |-> isin,
   weight_pct |-> weight, country |-> None, asset_class |-> None,
   instrument_isin |-> None]

\* silver rows as the N-PORT orchestrator builds them from the parser's Holding
NPORTRows ==
  {SilverRow(mv, NaN, c, k, None, NaN) :
     mv \in MarketValues, c \in CountryRaws, k \in CategoryRaws}

\* silver rows as the BDIF orchestrator builds them from the parser's Holding
BDIFRows ==
  {SilverRow(NaN, mv, c, None, i, w) :
     mv \in MarketValues, c \in {None, "", "fr"}, i \in IsinRaws, w \in ParsedWeights}

NPORTSilverCols == {"country_raw", "category_raw", "isin", "cusip"}
BDIFSilverCols == {"country_raw", "isin", "weight_pct"}

SeqsOf(S) == UNION {[1..n -> S] : n \in 0..MaxRows}

NPORTFrames ==
  {[cols |-> NPORTSilverCols \cup {"market_value_local"}, rows |-> rs] :
     rs \in SeqsOf(NPORTRows)}
  \cup {[cols |-> NPORTSilverCols, rows |-> rs] :
          rs \in {s \in SeqsOf(NPORTRows) :
                    \A i \in DOMAIN s : s[i].market_value_local = NaN}}

BDIFFrames ==
  {[cols |-> BDIFSilverCols \cup {"market_value_eur"}, rows |-> rs] :
     rs \in SeqsOf(BDIFRows)}
  \cup {[cols |-> BDIFSilverCols, rows |-> rs] :
          rs \in {s \in SeqsOf(BDIFRows) :
                    \A i \in DOMAIN s : s[i].market_value_eur = NaN}}

\* Series.sum(): NaN cells are skipped
RECURSIVE SumCells(_, _)
SumCells(v, k) ==
  IF k = 0 THEN 0 ELSE SumCells(v, k - 1) + (IF v[k] = NaN THEN 0 ELSE v[k])

\* x / total * 100.0
Pct(x, total) == IF x = NaN THEN NaN ELSE (x * Hundred) \div total

\* NPORTEnrichment._resolve_isin, without a CUSIP reference table
NPORTResolveIsin(f) ==
  [cols |-> f.cols \cup {"instrument_isin"},
   rows |-> [i \in DOMAIN f.rows |-> [f.rows[i] EXCEPT !.instrument_isin = f.rows[i].isin]]]

\* _compute_weights with the clipped values written back and the signed total
\* as denominator
NPORTComputeWeightsInPlace(f) ==
  IF "market_value_local" \notin f.cols THEN f
  ELSE
  LET n == Len(f.rows)
      mv == [i \in 1..n |-> f.rows[i].market_value_local]
      pos == [i \in 1..n |-> IF mv[i] # NaN /\ mv[i] < 0 THEN 0 ELSE mv[i]]
      total == SumCells(mv, n)
  IN [cols |-> f.cols \cup {"weight_pct", "market_value_eur"},
      rows |-> [i \in 1..n |->
                  [f.rows[i] EXCEPT
                     !.weight_pct = IF total > 0 THEN Pct(pos[i], total) ELSE 0,
                     !.market_value_local = pos[i],
                     !.market_value_eur = mv[i]]]]

\* NPORTEnrichment._compute_weights
NPORTComputeWeights(f) ==
  IF "market_value_local" \notin f.cols THEN f
  ELSE
  LET n == Len(f.rows)
      mv == [i \in 1..n |-> f.rows[i].market_value_local]
      pos == [i \in 1..n |-> IF mv[i] # NaN /\ mv[i] < 0 THEN 0 ELSE mv[i]]
      total == SumCells(pos, n)
  IN [cols |-> f.cols \cup {"weight_pct", "market_value_eur"},
      rows |-> [i \in 1..n |->
                  [f.rows[i] EXCEPT
                     !.weight_pct = IF total > 0 THEN Pct(pos[i], total) ELSE 0,
                     !.market_value_eur = mv[i]]]]

\* NPORTEnrichment._normalize_classifications
NPORTNormalizeClassifications(f) ==
  [cols |-> f.cols \cup (IF "country_raw" \in f.cols THEN {"country"} ELSE {})
                   \cup (IF "category_raw" \in f.cols THEN {"asset_class"} ELSE {})
                   \cup {"sector"},
   rows |-> [i \in DOMAIN f.rows |->
     LET r == f.rows[i] IN
     [r EXCEPT
        !.country = IF "country_raw" \in f.cols
                    THEN CountryMap(StrUpper(IF r.country_raw = None THEN "UNKNOWN"
                                             ELSE r.country_raw))
                    ELSE r.country,
        !.asset_class = IF "category_raw" \in f.cols
                        THEN AssetClassMap(StrTitle(IF r.category_raw = None THEN "Unknown"
                                                    ELSE r.category_raw))
                        ELSE r.asset_class]]]

\* NPORTEnrichment.enrich_holdings
NPORTEnrich(f) ==
  IF Len(f.rows) = 0 THEN f
  ELSE LET g == NPORTNormalizeClassifications(NPORTComputeWeights(NPORTResolveIsin(f)))
       IN [g EXCEPT !.cols = g.cols \cup {"enrichment_version"}]

\* BDIFEnrichment._compute_weights
BDIFComputeWeights(f) ==
  LET n == Len(f.rows) IN
  IF "market_value_eur" \notin f.cols
  THEN [cols |-> f.cols \cup {"weight_pct"},
        rows |-> [i \in 1..n |-> [f.rows[i] EXCEPT !.weight_pct = 0]]]
  ELSE
  LET values == [i \in 1..n |-> IF f.rows[i].market_value_eur = NaN THEN 0
                                ELSE f.rows[i].market_value_eur]
      total == SumCells(values, n)
  IN [cols |-> f.cols \cup {"weight_pct"},
      rows |-> [i \in 1..n |->
                  [f.rows[i] EXCEPT
                     !.weight_pct = IF total > 0 THEN Pct(values[i], total) ELSE 0]]]

\* BDIFEnrichment.enrich_holdings
BDIFEnrich(f) ==
  IF Len(f.rows) = 0 THEN f
  ELSE
  LET n == Len(f.rows)
      \* astype(str).str.upper(); the values "nan" and "None" no longer occur
      \* after upper(), so no cell is reset to None
      up == [cols |-> f.cols,
             rows |-> [i \in 1..n |-> [f.rows[i] EXCEPT !.isin = StrUpper(f.rows[i].isin)]]]
      w == IF "weight_pct" \notin up.cols \/ \A i \in 1..n : up.rows[i].weight_pct = NaN
           THEN BDIFComputeWeights(up) ELSE up
  IN [cols |-> w.cols \cup {"country", "enrichment_version"},
      rows |-> [i \in 1..n |->
        LET r == w.rows[i]
            c == IF "country_raw" \in w.cols THEN r.country_raw ELSE None
        IN [r EXCEPT !.country = StrUpper(IF c = None \/ c = ""
                                          THEN StrPrefix2(r.isin) ELSE c)]]]

Enrich(source, f) == IF source = "NPORT" THEN NPORTEnrich(f) ELSE BDIFEnrich(f)

IdleEnr == [pc |-> "idle", source |-> None, silver |-> [cols |-> {}, rows |-> <<>>],
            gold |-> [cols |-> {}, rows |-> <<>>], again |-> [cols |-> {}, rows |-> <<>>]]

EnrUnchanged ==
  UNCHANGED <<bp, funds, gold, persists, cache, call, run, nOps, prep, gate, http, reg,
              lim, writers, savers, search>>

\* the orchestrator enriches the silver frame of a parsed document
EnrichStep(source, f) ==
  /\ enr.pc = "idle"
  /\ enr' = [pc |-> "enriched", source |-> source, silver |-> f,
             gold |-> Enrich(source, f), again |-> IdleEnr.again]
  /\ EnrUnchanged

\* enrichment is run again on its own output
ReEnrichStep ==
  /\ enr.pc = "enriched"
  /\ enr' = [enr EXCEPT !.pc = "re-enriched", !.again = Enrich(enr.source, enr.gold)]
  /\ EnrUnchanged

EnrichReturn ==
  /\ enr.pc \in {"enriched", "re-enriched"}
  /\ enr' = IdleEnr
  /\ EnrUnchanged

EnrNext ==
  \/ \E f \in NPORTFrames : EnrichStep("NPORT", f)
  \/ \E f \in BDIFFrames : EnrichStep("BDIF", f)
  \/ ReEnrichStep
  \/ EnrichReturn

EnrInit ==
  /\ bp = "default"
  /\ funds = [l \in FundsLocs |-> Absent]
  /\ gold = {}
  /\ persists = <<>>
  /\ cache = <<>>
  /\ call = IdleCall
  /\ run = IdleRun
  /\ nOps = 0
  /\ prep = None
  /\ gate = None
  /\ http = None
  /\ reg = None
  /\ enr = IdleEnr
  /\ lim = None
  /\ writers = None
  /\ savers = None
  /\ search = None

EnrSpec == EnrInit /\ [][EnrNext]_vars

\* C23: enriching an enriched frame changes neither the row count nor any
\* row's country, asset_class or weight_pct.
C23_EnrichIdempotent ==
  enr.pc = "re-enriched" =>
    /\ Len(enr.again.rows) = Len(enr.gold.rows)
    /\ \A i \in 1..Len(enr.gold.rows) :
         /\ enr.again.rows[i].country = enr.gold.rows[i].country
         /\ enr.again.rows[i].asset_class = enr.gold.rows[i].asset_class
         /\ enr.again.rows[i].weight_pct = enr.gold.rows[i].weight_pct

\* a two-row N-PORT frame with a short position and a normalised country has
\* been enriched twice
C23_Witness ==
  /\ enr.pc = "re-enriched"
  /\ enr.source = "NPORT"
  /\ Len(enr.gold.rows) = 2
  /\ enr.gold.rows[1].market_value_local = Short
  /\ enr.gold.rows[2].weight_pct = Hundred
  /\ enr.gold.rows[2].country = "US"
  /\ enr.gold.rows[2].asset_class = "Fixed Income"

\* the market value cell of row i of the silver frame, in the source's column
SilverValue(i) ==
  IF enr.source = "NPORT" THEN enr.silver.rows[i].market_value_local
  ELSE enr.silver.rows[i].market_value_eur

PositivePart(x) == IF x = NaN \/ x < 0 THEN 0 ELSE x

RECURSIVE SumPositive(_)
SumPositive(k) == IF k = 0 THEN 0 ELSE SumPositive(k - 1) + PositivePart(SilverValue(k))

RECURSIVE SumWeights(_, _)
SumWeights(rows, k) == IF k = 0 THEN 0 ELSE SumWeights(rows, k - 1) + rows[k].weight_pct

\* C27: for either source, after enrichment every row of the silver frame is
\* kept, each row's weight_pct is its positive market value over the sum of all
\* positive market values, lies in [0, 100], the weights sum to 100 when some
\* market value is positive, and every weight is zero when none is.
C27_WeightsFromPositiveValues ==
  (enr.pc = "enriched" /\ Len(enr.silver.rows) > 0) =>
    LET n == Len(enr.silver.rows)
        total == SumPositive(n)
    IN /\ Len(enr.gold.rows) = n
       /\ "weight_pct" \in enr.gold.cols
       /\ \A i \in 1..n :
            /\ enr.gold.rows[i].weight_pct >= 0
            /\ enr.gold.rows[i].weight_pct <= Hundred
            /\ enr.gold.rows[i].weight_pct =
                 IF total > 0 THEN (PositivePart(SilverValue(i)) * Hundred) \div total ELSE 0
       /\ total > 0 => SumWeights(enr.gold.rows, n) = Hundred

\* ===================================================================
\* Request throttling: the _throttle methods of the discovery and download
\* classes, called by ingestion runs that share one pipeline object
\* ===================================================================
MaxTime == 5                    \* clock ticks observed
MaxReq == 3                     \* requests observed
RequestDelay == 2               \* REQUEST_DELAY of a source, in clock ticks
Sources == {"NPORT", "OAM", "BDIF"}
Roles == {"discovery", "download"}
Workers == {1, 2}               \* concurrent ingest_fund runs
NoTime == 0

\* BDIFDownloader.download_report calls requests.get without any throttle
Throttled(source, role) == ~(source = "BDIF" /\ role = "download")

IdleWorker == [pc |-> "idle", source |-> None, role |-> None, wake |-> NoTime]

LimUnchanged ==
  UNCHANGED <<bp, funds, gold, persists, cache, call, run, nOps, prep, gate, http, reg,
              enr, writers, savers, search>>

\* time.time() advances
Tick ==
  /\ lim.now < MaxTime
  /\ lim' = [lim EXCEPT !.now = lim.now + 1]
  /\ LimUnchanged

\* _throttle, first half: elapsed = time.time() - self._last_request_time and,
\* when elapsed < REQUEST_DELAY, the start of time.sleep(REQUEST_DELAY - elapsed)
ThrottleBegin(w, source, role) ==
  /\ lim.worker[w].pc = "idle"
  /\ Len(lim.log) + Cardinality({v \in Workers : lim.worker[v].pc = "throttling"}) < MaxReq
  /\ LET last == lim.last[<<source, role>>]
         elapsed == lim.now - last
         wake == IF Throttled(source, role) /\ elapsed < RequestDelay
                 THEN last + RequestDelay ELSE lim.now
     IN /\ wake <= MaxTime
        /\ lim' = [lim EXCEPT !.worker[w] = [pc |-> "throttling", source |-> source,
                                            role |-> role, wake |-> wake]]
  /\ LimUnchanged

\* _throttle, second half, and the request that follows it: the sleep is over,
\* self._last_request_time = time.time(), then requests.get / session.get
ThrottleEnd(w) ==
  /\ lim.worker[w].pc = "throttling"
  /\ lim.now >= lim.worker[w].wake
  /\ LET k == <<lim.worker[w].source, lim.worker[w].role>> IN
     lim' = [lim EXCEPT
               !.worker[w] = IdleWorker,
               !.last[k] = IF Throttled(k[1], k[2]) THEN lim.now ELSE @,
               !.log = Append(@, [source |-> k[1], role |-> k[2], at |-> lim.now,
                                  by |-> w])]
  /\ LimUnchanged

LimNext ==
  \/ Tick
  \/ \E w \in Workers, s \in Sources, r \in Roles : ThrottleBegin(w, s, r)
  \/ \E w \in Workers : ThrottleEnd(w)

\* each discovery and each downloader object starts with _last_request_time = 0.0;
\* the clock has long passed REQUEST_DELAY
LimInit ==
  /\ bp = "default"
  /\ funds = [l \in FundsLocs |-> Absent]
  /\ gold = {}
  /\ persists = <<>>
  /\ cache = <<>>
  /\ call = IdleCall
  /\ run = IdleRun
  /\ nOps = 0
  /\ prep = None
  /\ gate = None
  /\ http = None
  /\ reg = None
  /\ enr = None
  /\ lim = [now |-> RequestDelay,
            last |-> [k \in Sources \X Roles |-> NoTime],
            worker |-> [w \in Workers |-> IdleWorker],
            log |-> <<>>]
  /\ writers = None
  /\ savers = None
  /\ search = None

LimSpec == LimInit /\ [][LimNext]_vars

\* C24: any two requests sent to the same source are at least that source's
\* request delay apart, whichever run and whichever of discovery and download
\* sent them.
C24_RequestsSpaced ==
  \A i, j \in 1..Len(lim.log) :
    (i < j /\ lim.log[i].source = lim.log[j].source)
      => lim.log[j].at - lim.log[i].at >= RequestDelay

\* ===================================================================
\* Interleaved registry updates: ensure_fund_registered called by two
\* callers on the same fund_registry.yaml
\* ===================================================================
MaxCalls == 2                   \* ensure_fund_registered calls observed

\* ensure_fund_registered for an ETF, from the registry it loaded: whether it
\* saves, the registry it saves and the fund id it adds
EnsureOutcome(fs, isin, ticker, info) ==
  LET fund_id == FindExistingEntry(fs, isin, ticker) IN
  IF fund_id # None
  THEN LET e == fs[fund_id]
           needs_update ==
             \/ (Truthy(e, "domicile") /\ e["domicile"] \in {"LU", "DE"}
                 /\ ~Truthy(e, "auto_source"))
             \/ (~Truthy(e, "tickers") /\ ticker # None)
       IN IF needs_update /\ (isin # None \/ ticker # None)
          THEN [saved |-> TRUE, added |-> None,
                funds |-> AddRegistryEntry(fs, fund_id,
                                           DiscoverFundEntry(fs, isin, ticker, info))]
          ELSE [saved |-> FALSE, added |-> None, funds |-> fs]
  ELSE IF isin = None /\ ticker = None THEN [saved |-> FALSE, added |-> None, funds |-> fs]
  ELSE LET entry == DiscoverFundEntry(fs, isin, ticker, info) IN
       [saved |-> TRUE, added |-> entry["fund_id"],
        funds |-> AddRegistryEntry(fs, entry["fund_id"], entry)]

RaceUnchanged ==
  UNCHANGED <<bp, funds, gold, persists, cache, call, run, nOps, prep, gate, http, reg,
              enr, lim, savers, search>>

\* registry = self._load_registry()
RaceLoad(w, isin, ticker, info) ==
  /\ writers.caller[w].pc = "idle"
  /\ writers.calls < MaxCalls
  /\ writers' = [writers EXCEPT
                   !.calls = @ + 1,
                   !.clock = @ + 1,
                   !.caller[w] = [pc |-> "loaded", loaded |-> writers.file,
                                  isin |-> isin, ticker |-> ticker, info |-> info,
                                  loadAt |-> writers.clock + 1]]
  /\ RaceUnchanged

\* the rest of ensure_fund_registered: lookup, discovery, _add_registry_entry
\* with its yaml.dump of the registry loaded earlier, return
RaceSave(w) ==
  /\ writers.caller[w].pc = "loaded"
  /\ LET c == writers.caller[w]
         o == EnsureOutcome(c.loaded, c.isin, c.ticker, c.info)
     IN writers' = [writers EXCEPT
                      !.clock = @ + 1,
                      !.file = IF o.saved THEN o.funds ELSE @,
                      !.saves = IF o.saved
                                THEN Append(@, [by |-> w, loadAt |-> c.loadAt,
                                                saveAt |-> writers.clock + 1,
                                                added |-> o.added])
                                ELSE @,
                      !.caller[w] = [c EXCEPT !.pc = "idle"]]
  /\ RaceUnchanged

RaceNext ==
  \/ \E w \in Workers, isin \in RegIsins, ticker \in RegTickers, info \in RegInfos :
       RaceLoad(w, isin, ticker, info)
  \/ \E w \in Workers : RaceSave(w)

RaceInit ==
  /\ bp = "default"
  /\ funds = [l \in FundsLocs |-> Absent]
  /\ gold = {}
  /\ persists = <<>>
  /\ cache = <<>>
  /\ call = IdleCall
  /\ run = IdleRun
  /\ nOps = 0
  /\ prep = None
  /\ gate = None
  /\ http = None
  /\ reg = None
  /\ enr = None
  /\ lim = None
  /\ \E fs \in RegistryFiles :
       writers = [file |-> fs, clock |-> 0, calls |-> 0, saves |-> <<>>,
                  caller |-> [w \in Workers |->
                                [pc |-> "idle", loaded |-> fs, isin |-> None,
                                 ticker |-> None, info |-> "down", loadAt |-> 0]]]
  /\ savers = None
  /\ search = None

RaceSpec == RaceInit /\ [][RaceNext]_vars

AllReturned == \A w \in Workers : writers.caller[w].pc = "idle"

\* save j was made from a registry loaded before save i was written
Overlaps(i, j) == j > i /\ writers.saves[j].loadAt < writers.saves[i].saveAt

Serialized ==
  \A i, j \in 1..Len(writers.saves) : ~Overlaps(i, j)

\* C25: once all calls have returned, a fund that a call added is missing from
\* the registry only if a later save came from a call that had loaded the
\* registry before that fund was saved; so when the calls are serialized every
\* fund any call added is still present.
C25_LostUpdateOnlyWhenInterleaved ==
  AllReturned =>
    \A i \in 1..Len(writers.saves) :
      (writers.saves[i].added # None /\ writers.saves[i].added \notin DOMAIN writers.file)
        => \E j \in 1..Len(writers.saves) : Overlaps(i, j)

\* two calls for different new funds interleaved, both returned, and the fund
\* the first one saved is gone from the registry
C25_Witness ==
  /\ AllReturned
  /\ Len(writers.saves) = 2
  /\ writers.saves[1].added # None
  /\ writers.saves[2].added # None
  /\ writers.saves[1].added # writers.saves[2].added
  /\ writers.saves[1].by # writers.saves[2].by
  /\ Overlaps(1, 2)
  /\ writers.saves[1].added \notin DOMAIN writers.file
  /\ writers.saves[2].added \in DOMAIN writers.file

\* two serialized calls have each added a different fund
C25_SerializedCase ==
  /\ AllReturned
  /\ Serialized
  /\ Len(writers.saves) = 2
  /\ writers.saves[1].added # None
  /\ writers.saves[2].added # None
  /\ writers.saves[1].added # writers.saves[2].added

\* ===================================================================
\* BDIF discovery: BDIFDiscovery.discover_reports, query by query
\* ===================================================================
\* search_queries, in the order of the list
SearchQueries ==
  <<"isin", "identificationsociete_iso_cd_isi:isin", "code_isin_nom_sc:*isin*", "isin[:9]">>

RequestedIsin == "FR0000000002"

\* a record of a payload: its ISIN field, whether it has url_de_recuperation,
\* and the date its date fields parse to (NoDate when none parses)
RawRecords ==
  [isin : {RequestedIsin, "FR0000000009"}, url : BOOLEAN, as_of : {NoDate} \cup Dates]

NoPayload == <<[isin |-> "none", url |-> FALSE, as_of |-> NoDate]>>

\* what _get_json returns: None (NoPayload) or the records of the payload
Payloads == {NoPayload} \cup UNION {[1..n -> RawRecords] : n \in 0..MaxCand}

\* a record is kept whenever it has a URL and a date
AcceptWithUrl(r, isin, target) == r.url /\ r.as_of # NoDate

\* lines 111-137: the checks a record passes before it is appended
AcceptRecord(r, isin, target) ==
  /\ r.isin = isin
  /\ r.url
  /\ r.as_of # NoDate
  /\ target # NoDate => r.as_of = target

\* the reports appended for one payload, each with the query it came from
Accepted(payload, isin, target, q) ==
  IF payload = NoPayload THEN <<>>
  ELSE LET Keep(r) == AcceptRecord(r, isin, target)
           kept == SelectSeq(payload, Keep)
       IN [i \in 1..Len(kept) |->
             [isin |-> kept[i].isin, as_of |-> kept[i].as_of, query |-> q, pos |-> i]]

\* records.sort(key=lambda r: r.as_of, reverse=True), a stable sort
SortReportsDesc(rs) ==
  LET n == Len(rs)
      p == CHOOSE f \in [1..n -> 1..n] :
             /\ \A i, j \in 1..n : i # j => f[i] # f[j]
             /\ \A i, j \in 1..n : i < j =>
                  \/ rs[f[i]].as_of > rs[f[j]].as_of
                  \/ (rs[f[i]].as_of = rs[f[j]].as_of /\ f[i] < f[j])
  IN [i \in 1..n |-> rs[p[i]]]

IdleSearch ==
  [pc |-> "idle", target |-> NoDate, query |-> 0, asked |-> <<>>, yield |-> <<>>,
   payload |-> NoPayload, result |-> <<>>]

SearchUnchanged ==
  UNCHANGED <<bp, funds, gold, persists, cache, call, run, nOps, prep, gate, http, reg,
              enr, lim, writers, savers>>

\* discover_reports(isin, target_date) is called; the first query goes out
SearchStart(target) ==
  /\ search.pc = "idle"
  /\ search' = [IdleSearch EXCEPT !.pc = "querying", !.target = target, !.query = 1,
                                  !.asked = <<SearchQueries[1]>>]
  /\ SearchUnchanged

\* _get_json returns for the current query; its records are checked; the loop
\* breaks when some were appended, else goes to the next query; after the loop
\* the records are sorted and returned
SearchRespond(payload) ==
  /\ search.pc = "querying"
  /\ LET got == Accepted(payload, RequestedIsin, search.target, search.query)
         seen == [search EXCEPT !.yield = Append(@, Len(got)), !.payload = payload]
     IN search' =
          IF Len(got) > 0
          THEN [seen EXCEPT !.pc = "done", !.result = SortReportsDesc(got)]
          ELSE IF search.query < Len(SearchQueries)
          THEN [seen EXCEPT !.query = @ + 1,
                            !.asked = Append(@, SearchQueries[search.query + 1])]
          ELSE [seen EXCEPT !.pc = "done"]
  /\ SearchUnchanged

\* the caller takes the list
SearchReturn ==
  /\ search.pc = "done"
  /\ search' = IdleSearch
  /\ SearchUnchanged

SearchNext ==
  \/ \E target \in {NoDate} \cup Dates : SearchStart(target)
  \/ \E payload \in Payloads : SearchRespond(payload)
  \/ SearchReturn

SearchInit ==
  /\ bp = "default"
  /\ funds = [l \in FundsLocs |-> Absent]
  /\ gold = {}
  /\ persists = <<>>
  /\ cache = <<>>
  /\ call = IdleCall
  /\ run = IdleRun
  /\ nOps = 0
  /\ prep = None
  /\ gate = None
  /\ http = None
  /\ reg = None
  /\ enr = None
  /\ lim = None
  /\ writers = None
  /\ savers = None
  /\ search = IdleSearch

SearchSpec == SearchInit /\ [][SearchNext]_vars

\* the queries sent are the first ones of the list qs, in its order
AskedInOrder(qs) ==
  /\ Len(search.asked) <= Len(qs)
  /\ \A i \in 1..Len(search.asked) : search.asked[i] = qs[i]

\* stop at the first query with an accepted record; nothing is mixed; every
\* report has the requested ISIN and, with a target date, that date
StopsAndFilters ==
  /\ \A i \in 1..Len(search.yield) : i < Len(search.yield) => search.yield[i] = 0
  /\ Len(search.yield) = Len(search.asked)
  /\ \A i \in 1..Len(search.result) :
       /\ search.result[i].query = Len(search.asked)
       /\ search.result[i].isin = RequestedIsin
       /\ search.target # NoDate => search.result[i].as_of = search.target
  /\ Len(search.result) = search.yield[Len(search.yield)]
  /\ \A i, j \in 1..Len(search.result) :
       i < j => search.result[i].as_of >= search.result[j].as_of

\* C26 as stated: the strategies are exact ISIN, field-qualified ISIN and
\* partial ISIN prefix, in that order.
C26_AsStated ==
  search.pc = "done" =>
    /\ AskedInOrder(<<"isin", "identificationsociete_iso_cd_isi:isin", "isin[:9]">>)
    /\ StopsAndFilters

\* C26: discover_reports sends its four queries (exact ISIN, ISIN in the
\* issuer-ISIN field, ISIN as a wildcard in the code_isin_nom_sc field, first
\* nine characters of the ISIN) in that order, stops at the first query that
\* yields an accepted record, returns records of that query only, each with the
\* requested ISIN in its own ISIN field and, with a target date, exactly that
\* as_of.
C26_DiscoveryStrategies ==
  search.pc = "done" =>
    /\ AskedInOrder(SearchQueries)
    /\ StopsAndFilters

\* the second query yielded reports after the first yielded none, under a
\* target date
C26_Witness ==
  /\ search.pc = "done"
  /\ search.target # NoDate
  /\ Len(search.asked) = 2
  /\ Len(search.result) = 2

\* the run that just ended persisted version v of (f, d) in the orchestrator's
\* gold store and then returned failure because QA failed
QAFailedRun(orch, f, d, v) ==
  /\ run.op = "ingest" /\ run.orch = orch /\ run.fund = f
  /\ run.wrote /\ run.reachedQA /\ run.qa = "fail" /\ run.outcome = "false"
  /\ Len(persists) > 0
  /\ persists[Len(persists)].store = orch \o ".gold"
  /\ persists[Len(persists)].fund = f
  /\ persists[Len(persists)].as_of = d
  /\ persists[Len(persists)].version = v

InWindow(orch, f, d) ==
  Today - d < FreshnessDays(f, IF orch = "OAM" THEN OAM_DEFAULT_FRESHNESS
                               ELSE BDIF_DEFAULT_FRESHNESS)

\* an unforced run without target date for f by the orchestrator has just ended
UnforcedRerun(orch, f) ==
  /\ run.op = "ingest" /\ run.orch = orch /\ run.fund = f
  /\ ~run.force /\ run.target = NoDate

StillStored(orch, f, d, v) ==
  \E g \in gold : g.store = orch \o ".gold" /\ g.fund = f /\ g.as_of = d /\ g.version = v

\* C28: once a run has persisted a snapshot and then failed QA, the snapshot
\* stays in the store for good, and, when its as_of is inside the freshness
\* window, every later unforced run without target date for that fund returns
\* success with no network call and without running QA.
C28_PersistSurvivesQAFailure ==
  \A orch \in {"OAM", "BDIF"}, f \in FundIds, d \in Dates, v \in 1..MaxOps :
    [](QAFailedRun(orch, f, d, v) =>
        [](/\ StillStored(orch, f, d, v)
           /\ (UnforcedRerun(orch, f) /\ InWindow(orch, f, d) /\ ~QAFailedRun(orch, f, d, v))
                => (run.outcome = "true" /\ run.net = 0 /\ ~run.reachedQA /\ ~run.wrote)))

\* the second run for a fund skipped ingestion on the strength of the snapshot a
\* QA-failed first run left in the store
C28_Witness ==
  /\ run.op = "ingest" /\ run.orch \in {"OAM", "BDIF"}
  /\ ~run.force /\ run.target = NoDate
  /\ run.outcome = "true" /\ run.net = 0 /\ ~run.reachedQA
  /\ Len(persists) = 1
  /\ persists[1].qa = "fail"
  /\ persists[1].fund = run.fund
  /\ persists[1].store = run.orch \o ".gold"
  /\ StillStored(run.orch, run.fund, persists[1].as_of, persists[1].version)

\* C29: after a successful ingest_fund or ensure_snapshot for a registered fund
\* that wrote a snapshot, the store fetch_holdings reads holds a snapshot of
\* that fund under the as_of that was written.
C29_WrittenIsDiscoverable ==
  (/\ run.op \in {"ingest", "ensure"}
   /\ run.fund \in FundIds
   /\ run.wrote
   /\ run.outcome \in {"true", "success"}
   /\ persists[Len(persists)].as_of \in Dates)
  => MatchingInStore(run.fund, persists[Len(persists)].as_of) # {}

\* ===================================================================
\* Concurrent persist steps: _save_gold with _next_version of the OAM and
\* BDIF orchestrators, two runs writing the same (fund, as_of) directory
\* ===================================================================
MaxSaves == 3                   \* _save_gold calls observed
SaveData == {"a", "b"}          \* contents of a holdings.csv

\* _next_version(directory): max(existing_versions, default=0) + 1
NextVersionIn(dir) ==
  IF DOMAIN dir = {} THEN 1 ELSE Max(DOMAIN dir) + 1

SaveUnchanged ==
  UNCHANGED <<bp, funds, gold, persists, cache, call, run, nOps, prep, gate, http, reg,
              enr, lim, writers, search>>

\* _save_gold, first half: output_dir.mkdir, version = self._next_version(output_dir)
SaveScan(w, data) ==
  /\ savers.run[w].pc = "idle"
  /\ savers.calls < MaxSaves
  /\ savers' = [savers EXCEPT
                  !.calls = @ + 1,
                  !.run[w] = [pc |-> "scanned", version |-> NextVersionIn(savers.dir),
                              data |-> data]]
  /\ SaveUnchanged

\* _save_gold, second half: output_path.mkdir(exist_ok=True), df.to_csv(csv_path)
SaveWrite(w) ==
  /\ savers.run[w].pc = "scanned"
  /\ LET v == savers.run[w].version
         d == savers.run[w].data
     IN savers' = [savers EXCEPT
                     !.dir = (v :> d) @@ savers.dir,
                     !.written = Append(@, [by |-> w, version |-> v, data |-> d]),
                     !.run[w] = [@ EXCEPT !.pc = "idle"]]
  /\ SaveUnchanged

SaveNext ==
  \/ \E w \in Workers, data \in SaveData : SaveScan(w, data)
  \/ \E w \in Workers : SaveWrite(w)

\* the as_of directory holds the versions written by earlier runs
SaveInit ==
  /\ bp = "default"
  /\ funds = [l \in FundsLocs |-> Absent]
  /\ gold = {}
  /\ persists = <<>>
  /\ cache = <<>>
  /\ call = IdleCall
  /\ run = IdleRun
  /\ nOps = 0
  /\ prep = None
  /\ gate = None
  /\ http = None
  /\ reg = None
  /\ enr = None
  /\ lim = None
  /\ writers = None
  /\ \E n \in 0..1 :
       savers = [dir |-> [v \in 1..n |-> "a"], calls |-> 0, written |-> <<>>,
                 run |-> [w \in Workers |-> [pc |-> "idle", version |-> 0, data |-> "a"]]]
  /\ search = None

SaveSpec == SaveInit /\ [][SaveNext]_vars

\* C30: any two persist steps for the same (fund, as_of) wrote distinct
\* versions, and every file written still has the content its run wrote.
C30_DistinctVersions ==
  /\ \A i, j \in 1..Len(savers.written) :
       i # j => savers.written[i].version # savers.written[j].version
  /\ \A i \in 1..Len(savers.written) :
       savers.dir[savers.written[i].version] = savers.written[i].data

====
